---- MODULE Spec2Model ----
(***************************************************************************)
(* The state matrix of the replication core (internal/statematrix/store.go)*)
(* as a state machine: the in-memory cache of open frontiers, the          *)
(* committed peer files and their ".new" companions, and one frontier      *)
(* reference held by a caller of the API.                                  *)
(*                                                                         *)
(* store.go is present in two revisions.  Both are modelled; the variable  *)
(* rev says which one a behaviour runs:                                    *)
(*   "ssbc"        lines   1..333  (NetworkFrontier is a map; Update       *)
(*                                  returns a fresh map)                   *)
(*   "cryptoscope" lines 335..708  (NetworkFrontier is a struct holding    *)
(*                                  the map; Update returns the cached one)*)
(***************************************************************************)
EXTENDS Integers, Sequences, FiniteSets, TLC

\* ------------------------------------------------------------------ bounds

\* Highest sequence number a note drawn as an input carries.
MaxSeq == 1
\* Longest list of observed feeds handed to Fill.
MaxFill == 2
\* Most entries in a patch handed to Update.
MaxPatch == 1
\* Most calls of the API (and caller-side map writes) in one behaviour.
MaxCalls == 3
\* Most process crashes in one behaviour.
MaxCrash == 1
\* Most times the environment damages a committed file in one behaviour.
MaxDamage == 1

\* ---------------------------------------------------------------- universe

Self == "alice"
Peers == {"alice", "bob"}

\* Feed references in the order encoding/json writes map keys (sorted).
FeedOrder == <<"bob", "carol">>
Feeds == {FeedOrder[i] : i \in 1..Len(FeedOrder)}

Revisions == {"ssbc", "cryptoscope"}

\* ssb.Note
Note(s, rep, rcv) == [seq |-> s, replicate |-> rep, receive |-> rcv]

\* ssb.Note{}: what WantsFeed returns when the frontier has no entry
ZeroNote == Note(0, FALSE, FALSE)

\* Notes drawn as inputs: replicated feeds at every seq, one that is
\* replicated but not received, and the "do not replicate" convention.
NoteInputs ==
    {Note(s, TRUE, TRUE) : s \in 0..MaxSeq}
        \cup {Note(MaxSeq, TRUE, FALSE), Note(-1, FALSE, FALSE)}

\* -------------------------------------------------------------- Go maps

\* make(ssb.NetworkFrontier) / ssb.NewNetworkFrontier(): the empty map
EmptyFrontier == [f \in {} |-> ZeroNote]

\* m[k] = v
MapPut(m, k, v) == [x \in DOMAIN m \cup {k} |-> IF x = k THEN v ELSE m[x]]

\* delete(m, k)
MapDel(m, k) == [x \in DOMAIN m \ {k} |-> m[x]]

\* The patches handed to Update.
Patches ==
    UNION {[D -> NoteInputs] : D \in {E \in SUBSET Feeds : Cardinality(E) <= MaxPatch}}

\* The notes of the feeds handed to Fill, which looks at replicate alone.
FillNotes == {Note(0, TRUE, TRUE), Note(MaxSeq, TRUE, TRUE), Note(-1, FALSE, FALSE)}

\* ObservedFeed: a feed with its note
ObservedFeeds == [feed : Feeds, note : FillNotes]

\* The lists handed to Fill.
FillLists == UNION {[1..n -> ObservedFeeds] : n \in 0..MaxFill}

\* ------------------------------------------------------- files (encoding)

\* A file of the base directory: whether it exists, the entries written so
\* far, and whether the encoding was written to its end.
NoFile == [exists |-> FALSE, entries |-> <<>>, complete |-> FALSE]

\* The file just created or truncated by os.OpenFile(O_TRUNC|O_CREATE).
EmptyFile == [exists |-> TRUE, entries |-> <<>>, complete |-> FALSE]

\* One "feed-ref": {seq, replicate, receive} member of the JSON object.
EncodeEntry(f, n) ==
    [feed |-> f, seq |-> n.seq, replicate |-> n.replicate, receive |-> n.receive]

\* json.NewEncoder(peerFile).Encode(nf): the members in sorted key order.
EncodeEntries(nf) ==
    LET keys == SelectSeq(FeedOrder, LAMBDA f : f \in DOMAIN nf)
    IN  [i \in 1..Len(keys) |-> EncodeEntry(keys[i], nf[keys[i]])]

Encode(nf) == [exists |-> TRUE, entries |-> EncodeEntries(nf), complete |-> TRUE]

\* A write that stopped after cut members: the object is never closed.
Truncated(content, cut) ==
    [exists |-> TRUE, entries |-> SubSeq(content.entries, 1, cut), complete |-> FALSE]

RECURSIVE DecodeFrom(_, _, _)
DecodeFrom(entries, i, acc) ==
    IF i > Len(entries) THEN acc
    ELSE DecodeFrom(entries, i + 1,
                    MapPut(acc, entries[i].feed,
                           Note(entries[i].seq, entries[i].replicate, entries[i].receive)))

\* json.NewDecoder(peerFile).Decode(&curr) succeeds on a whole object only.
Decodable(f) == f.exists /\ f.complete

Decode(f) == DecodeFrom(f.entries, 1, EmptyFrontier)

\* ------------------------------------------------------------------ state

VARIABLES
    rev,        \* the revision of store.go this behaviour runs
    up,         \* a StateMatrix exists (New succeeded, the process lives)
    open,       \* sm.open: peer -> frontier, for the cached peers
    file,       \* the committed file <name> of each peer
    newFile,    \* the file <name>.new of each peer
    held,       \* the frontier a caller got from Inspect or Update and kept
    ret,        \* what the last call returned
    last,       \* the last call, with the state it began in
    budget,     \* calls, crashes and damages so far
    theirs,     \* sm.open of the state matrix in the process of the peer
    wire,       \* the notes in flight between the two processes
    graph,      \* the trust graph built from the contact messages seen
    verdict,    \* what the last Authorize returned
    registry,   \* Sessions: the open sessions and who waits for their end
    callers,    \* the connections calling the registry, and where they are
    session,    \* the session with the peer
    task,       \* the outbound task of the session for one feed
    sbot        \* the node the command-line client talks to: its receive log

\* The authorizer's state.
trust == <<graph, verdict>>

\* The session engine's state.
engine == <<registry, callers, session, task>>

\* The state matrix of this process and its files.
matrix == <<rev, up, open, file, newFile, held, ret, last, budget>>

\* What lies outside this process's state matrix and its files.
outside == <<theirs, wire, trust, engine, sbot>>

vars == <<matrix, outside>>

\* held.kind: "none"; "alias" when the caller's map IS the map cached for
\* held.peer; "own" when nothing else refers to the caller's map (val).
NoHeld == [kind |-> "none", src |-> "none", peer |-> Self, val |-> EmptyFrontier]

HeldAlias(op, p) == [kind |-> "alias", src |-> op, peer |-> p, val |-> EmptyFrontier]

HeldOwn(op, p, nf) == [kind |-> "own", src |-> op, peer |-> p, val |-> nf]

\* The content of the map the caller holds.
HeldValue == IF held.kind = "alias" THEN open[held.peer] ELSE held.val

\* The frontier the matrix has for a peer: the cached one, else the one its
\* committed file holds, else none.
Known(o, fl, p) ==
    IF p \in DOMAIN o THEN o[p]
    ELSE IF Decodable(fl[p]) THEN Decode(fl[p])
    ELSE EmptyFrontier

RetNone ==
    [nf |-> EmptyFrontier, note |-> ZeroNote, wants |-> FALSE, feeds |-> {}, longer |-> {}]

\* The feed argument of a call that takes none.
NoFeed == "none"

\* The record of a call: the operation, its peer and arguments, the error
\* it returned, whether an I/O step failed in it, and the cache, the files
\* and the caller's map as they were when it began.
CallWith(op, p, err, ioerr, patch, feeds) ==
    [op |-> op, peer |-> p, feed |-> NoFeed, err |-> err, ioerr |-> ioerr,
     patch |-> patch, feeds |-> feeds,
     open |-> open, file |-> file, newFile |-> newFile,
     held |-> held, heldValue |-> HeldValue]

Call(op, p, err, ioerr) == CallWith(op, p, err, ioerr, EmptyFrontier, <<>>)

\* A call can be made: the matrix exists and the behaviour has calls left.
CanCall == up /\ budget.calls < MaxCalls

Spent == [budget EXCEPT !.calls = @ + 1]

\* No contact message seen: no edge.  seen counts the messages, followed
\* keeps the pairs that had a follow edge at some time.
NoGraph == [edge |-> [e \in {} |-> "follow"], followed |-> {}, seen |-> 0]

\* No Authorize was called yet.  fails is what failed in the call, built
\* the graph the call read; twice says the call repeats the call before it
\* and same that it was answered as that one.
NoVerdict ==
    [op |-> "none", from |-> "none", to |-> "none", maxHops |-> 0, admit |-> FALSE,
     why |-> "none", dist |-> [n |-> 0, as |-> "exact"], max |-> 0,
     fails |-> "none", built |-> NoGraph, twice |-> FALSE, same |-> TRUE]

MaxConns == 3

\* The connections that call the registry.
Conns == 1..MaxConns

\* The peer strings (addr.String()) sessions are registered under.
Addrs == {"bob@net", "carol@net"}

\* Sessions{open: make(map[string]*session), waitingFor: make(map[string]chan<- struct{})}:
\* no session, no channel.  made counts the sessions made so far and gives
\* them their identity; live are the sessions made and not ended.
NoSessions ==
    [open |-> [a \in {} |-> 0], waitingFor |-> {}, made |-> 0, live |-> {}]

\* A connection that has called nothing yet.
NoCall ==
    [pc |-> "idle", addr |-> "none", had |-> FALSE, clean |-> TRUE,
     isNew |-> FALSE, sess |-> 0]

\* No session with the peer yet.  id is the session's identity in the
\* registry, tasks the feeds with an outbound task, saved how SaveAndClose
\* ended ("no": not called), frontier what the matrix had for the peer then.
NoSession ==
    [state |-> "CLOSED", id |-> 0, tasks |-> {}, cancel |-> FALSE, why |-> "none",
     saved |-> "no", frontier |-> EmptyFrontier]

\* No outbound task for the feed yet, and an empty log of it.  head is
\* self_head(F), cursor the seq the peer is known to have, start the cursor
\* the task began with, delivered the seqs sent, skipped those passed over
\* in a fast-forward, grown whether the log grew while the task streamed.
NoTask ==
    [pc |-> "none", head |-> 0, cursor |-> 0, start |-> 0, delivered |-> <<>>,
     skipped |-> {}, grown |-> FALSE]

\* The engine after NewPlug.
NoEngine ==
    /\ registry = NoSessions
    /\ callers = [c \in Conns |-> NoCall]
    /\ session = NoSession
    /\ task = NoTask

\* Nothing in flight, nothing sent yet, nothing applied by either side.
NoWire == [to |-> "none", nf |-> EmptyFrontier, sent |-> 0, applied |-> {}]

\* A node on an empty repository (os.RemoveAll(srvRepo), then sbot.New): the
\* receive log holds no message.  published counts the publishes that
\* succeeded, step is the last command and the Seq() it began with.
NoNode ==
    [ReceiveLog |-> <<>>, published |-> 0,
     step |-> [op |-> "New", type |-> "none", ok |-> TRUE, seq |-> -1]]

\* ------------------------------------------------------------ loadFrontier

\* loadFrontier falling back on <name>.new when <name> does not exist.
loadFrontierReadsNew(o, peer, openFails) ==
    IF peer \in DOMAIN o
    THEN [err |-> FALSE, ioerr |-> FALSE, open |-> o, nf |-> o[peer]]
    ELSE IF openFails
    THEN [err |-> TRUE, ioerr |-> TRUE, open |-> o, nf |-> EmptyFrontier]
    ELSE LET f == IF file[peer].exists THEN file[peer] ELSE newFile[peer]
         IN  IF ~f.exists
             THEN [err |-> FALSE, ioerr |-> FALSE,
                   open |-> MapPut(o, peer, EmptyFrontier), nf |-> EmptyFrontier]
             ELSE IF ~Decodable(f)
             THEN [err |-> TRUE, ioerr |-> FALSE, open |-> o, nf |-> EmptyFrontier]
             ELSE [err |-> FALSE, ioerr |-> FALSE,
                   open |-> MapPut(o, peer, Decode(f)), nf |-> Decode(f)]

\* loadFrontier caching the empty frontier before it reports a decode error.
loadFrontierCachesOnError(o, peer, openFails) ==
    IF peer \in DOMAIN o
    THEN [err |-> FALSE, ioerr |-> FALSE, open |-> o, nf |-> o[peer]]
    ELSE IF openFails
    THEN [err |-> TRUE, ioerr |-> TRUE, open |-> o, nf |-> EmptyFrontier]
    ELSE IF ~file[peer].exists
    THEN [err |-> FALSE, ioerr |-> FALSE,
          open |-> MapPut(o, peer, EmptyFrontier), nf |-> EmptyFrontier]
    ELSE IF ~Decodable(file[peer])
    THEN [err |-> TRUE, ioerr |-> FALSE,
          open |-> MapPut(o, peer, EmptyFrontier), nf |-> EmptyFrontier]
    ELSE [err |-> FALSE, ioerr |-> FALSE,
          open |-> MapPut(o, peer, Decode(file[peer])), nf |-> Decode(file[peer])]

\* loadFrontier(peer) on cache o: the error, the cache afterwards and the
\* frontier returned.  openFails: os.Open fails with something other than
\* "does not exist".
loadFrontier(o, peer, openFails) ==
    IF peer \in DOMAIN o
    THEN [err |-> FALSE, ioerr |-> FALSE, open |-> o, nf |-> o[peer]]
    ELSE IF openFails
    THEN [err |-> TRUE, ioerr |-> TRUE, open |-> o, nf |-> EmptyFrontier]
    ELSE IF ~file[peer].exists
    THEN [err |-> FALSE, ioerr |-> FALSE,
          open |-> MapPut(o, peer, EmptyFrontier), nf |-> EmptyFrontier]
    ELSE IF ~Decodable(file[peer])
    THEN [err |-> TRUE, ioerr |-> FALSE, open |-> o, nf |-> EmptyFrontier]
    ELSE [err |-> FALSE, ioerr |-> FALSE,
          open |-> MapPut(o, peer, Decode(file[peer])), nf |-> Decode(file[peer])]

\* os.Open can only fail where loadFrontier gets to it.
OpenFailures(o, peer) == IF peer \in DOMAIN o THEN {FALSE} ELSE BOOLEAN

\* The caller keeps the returned map (aliasing the cache) or drops it.
KeepAlias(op, p, keep) == IF keep THEN HeldAlias(op, p) ELSE held

\* New(base, self): an empty cache, then loadFrontier(self).
New ==
    /\ ~up
    /\ budget.calls < MaxCalls
    /\ LET l == loadFrontier(EmptyFrontier, Self, FALSE)
       IN  /\ up' = ~l.err
           /\ open' = l.open
           /\ last' = Call("New", Self, l.err, l.ioerr)
    /\ held' = NoHeld
    /\ ret' = RetNone
    /\ budget' = Spent
    /\ UNCHANGED <<outside, rev, file, newFile>>

\* Inspect(peer)
Inspect(peer, openFails, keep) ==
    /\ CanCall
    /\ openFails \in OpenFailures(open, peer)
    /\ LET l == loadFrontier(open, peer, openFails)
       IN  /\ open' = l.open
           /\ held' = IF l.err THEN held ELSE KeepAlias("Inspect", peer, keep)
           /\ ret' = IF l.err THEN RetNone ELSE [RetNone EXCEPT !.nf = l.nf]
           /\ last' = Call("Inspect", peer, l.err, l.ioerr)
    /\ budget' = Spent
    /\ UNCHANGED <<outside, rev, up, file, newFile>>

\* ------------------------------------------------------------ Update, Fill

\* The loop of Update skipping the feeds current already has.
OverwriteKeepsOld(current, update) ==
    [f \in DOMAIN current \cup DOMAIN update |->
        IF f \in DOMAIN current THEN current[f] ELSE update[f]]

\* The loop of Update keeping the note with the higher seq.
OverwriteKeepsHigherSeq(current, update) ==
    [f \in DOMAIN current \cup DOMAIN update |->
        IF f \notin DOMAIN update THEN current[f]
        ELSE IF f \in DOMAIN current /\ current[f].seq > update[f].seq THEN current[f]
        ELSE update[f]]

\* for feed, note := range update { current[feed] = note }
Overwrite(current, update) ==
    [f \in DOMAIN current \cup DOMAIN update |->
        IF f \in DOMAIN update THEN update[f] ELSE current[f]]

\* Update(who, update), revision ssbc: the result is a fresh map filled
\* from current.
Update(who, update, openFails, keep) ==
    /\ CanCall
    /\ rev = "ssbc"
    /\ openFails \in OpenFailures(open, who)
    /\ LET l == loadFrontier(open, who, openFails)
           current == Overwrite(l.nf, update)
       IN  IF l.err
           THEN /\ UNCHANGED <<open, held>>
                /\ ret' = RetNone
                /\ last' = CallWith("Update", who, TRUE, l.ioerr, update, <<>>)
           ELSE /\ open' = MapPut(l.open, who, current)
                /\ held' = IF keep THEN HeldOwn("Update", who, current) ELSE held
                /\ ret' = [RetNone EXCEPT !.nf = current]
                /\ last' = CallWith("Update", who, FALSE, FALSE, update, <<>>)
    /\ budget' = Spent
    /\ UNCHANGED <<outside, rev, up, file, newFile>>

\* Update(who, update), revision cryptoscope: the result is current, whose
\* Frontier map is the cached one.
UpdateOld(who, update, openFails, keep) ==
    /\ CanCall
    /\ rev = "cryptoscope"
    /\ openFails \in OpenFailures(open, who)
    /\ LET l == loadFrontier(open, who, openFails)
           current == Overwrite(l.nf, update)
       IN  IF l.err
           THEN /\ UNCHANGED <<open, held>>
                /\ ret' = RetNone
                /\ last' = CallWith("Update", who, TRUE, l.ioerr, update, <<>>)
           ELSE /\ open' = MapPut(l.open, who, current)
                /\ held' = KeepAlias("Update", who, keep)
                /\ ret' = [RetNone EXCEPT !.nf = current]
                /\ last' = CallWith("Update", who, FALSE, FALSE, update, <<>>)
    /\ budget' = Spent
    /\ UNCHANGED <<outside, rev, up, file, newFile>>

\* The loop of Fill writing every note, replicated or not.
RECURSIVE FillFromWritesAll(_, _, _)
FillFromWritesAll(nf, feeds, i) ==
    IF i > Len(feeds) THEN nf
    ELSE FillFromWritesAll(MapPut(nf, feeds[i].feed, feeds[i].note), feeds, i + 1)

\* The loop of Fill over feeds[i..]: a replicated feed is written, any
\* other is deleted.
RECURSIVE FillFrom(_, _, _)
FillFrom(nf, feeds, i) ==
    IF i > Len(feeds) THEN nf
    ELSE FillFrom(IF feeds[i].note.replicate
                  THEN MapPut(nf, feeds[i].feed, feeds[i].note)
                  ELSE MapDel(nf, feeds[i].feed),
                  feeds, i + 1)

\* Fill(who, feeds), revision ssbc
Fill(who, feeds, openFails) ==
    /\ CanCall
    /\ rev = "ssbc"
    /\ openFails \in OpenFailures(open, who)
    /\ LET l == loadFrontier(open, who, openFails)
       IN  IF l.err
           THEN /\ open' = open
                /\ last' = CallWith("Fill", who, TRUE, l.ioerr, EmptyFrontier, feeds)
           ELSE /\ open' = MapPut(l.open, who, FillFrom(l.nf, feeds, 1))
                /\ last' = CallWith("Fill", who, FALSE, FALSE, EmptyFrontier, feeds)
    /\ ret' = RetNone
    /\ budget' = Spent
    /\ UNCHANGED <<outside, rev, up, file, newFile, held>>

\* Fill(who, feeds), revision cryptoscope: an empty list returns before
\* the peer is loaded.
FillOld(who, feeds, openFails) ==
    /\ CanCall
    /\ rev = "cryptoscope"
    /\ IF Len(feeds) = 0
       THEN /\ openFails = FALSE
            /\ open' = open
            /\ last' = CallWith("Fill", who, FALSE, FALSE, EmptyFrontier, feeds)
       ELSE /\ openFails \in OpenFailures(open, who)
            /\ LET l == loadFrontier(open, who, openFails)
               IN  IF l.err
                   THEN /\ open' = open
                        /\ last' = CallWith("Fill", who, TRUE, l.ioerr, EmptyFrontier, feeds)
                   ELSE /\ open' = MapPut(l.open, who, FillFrom(l.nf, feeds, 1))
                        /\ last' = CallWith("Fill", who, FALSE, FALSE, EmptyFrontier, feeds)
    /\ ret' = RetNone
    /\ budget' = Spent
    /\ UNCHANGED <<outside, rev, up, file, newFile, held>>

\* The caller writes an entry of the map it holds.  A Go map is a
\* reference: when the map is the cached one, the cache changes with it.
CallerWrite(feed, note) ==
    /\ CanCall
    /\ held.kind # "none"
    /\ IF held.kind = "alias"
       THEN /\ open' = MapPut(open, held.peer, MapPut(open[held.peer], feed, note))
            /\ held' = held
       ELSE /\ open' = open
            /\ held' = [held EXCEPT !.val = MapPut(@, feed, note)]
    /\ last' = Call("CallerWrite", held.peer, FALSE, FALSE)
    /\ ret' = RetNone
    /\ budget' = Spent
    /\ UNCHANGED <<outside, rev, up, file, newFile>>

\* The caller drops the map it holds.
CallerDrop ==
    /\ CanCall
    /\ held.kind # "none"
    /\ held' = NoHeld
    /\ last' = Call("CallerDrop", held.peer, FALSE, FALSE)
    /\ ret' = RetNone
    /\ budget' = Spent
    /\ UNCHANGED <<outside, rev, up, open, file, newFile>>

\* ------------------------------------------------------ save, Close, crash

\* How a save ends: "ok", or the step that fails: os.OpenFile, the write
\* of the encoding, or what follows it (peerFile.Close and os.Rename leave
\* the same files behind).
IOFates == {"ok", "open", "write", "rename"}

\* Where a crash can stop a save: after the open and truncate of <name>.new,
\* inside the write, after the write and close, after the rename.
CrashPoints == {"opened", "writing", "written", "renamed"}

\* A save of an uncached peer returns right after os.OpenFile.
SaveFates(o, peer) == IF peer \in DOMAIN o THEN IOFates ELSE {"ok", "open"}

\* How many members a failed or interrupted write can have got out.
Cuts(o, peer, fate) ==
    IF peer \in DOMAIN o /\ fate \in {"write", "writing"}
    THEN 0..Len(EncodeEntries(o[peer]))
    ELSE {0}

\* save returning after the close of <name>.new, the rename left out.
saveSkipsRename(o, peer, fate, cut) ==
    IF fate = "open"
    THEN [err |-> TRUE, file |-> file[peer], newFile |-> newFile[peer]]
    ELSE IF peer \notin DOMAIN o
    THEN [err |-> FALSE, file |-> file[peer], newFile |-> EmptyFile]
    ELSE IF fate = "write"
    THEN [err |-> TRUE, file |-> file[peer], newFile |-> Truncated(Encode(o[peer]), cut)]
    ELSE IF fate = "rename"
    THEN [err |-> TRUE, file |-> file[peer], newFile |-> Encode(o[peer])]
    ELSE [err |-> FALSE, file |-> file[peer], newFile |-> Encode(o[peer])]

\* save going on to the rename when the peer is not cached: the empty
\* <name>.new replaces <name>.
saveRenamesUncached(o, peer, fate, cut) ==
    IF fate = "open"
    THEN [err |-> TRUE, file |-> file[peer], newFile |-> newFile[peer]]
    ELSE IF peer \notin DOMAIN o
    THEN [err |-> FALSE, file |-> EmptyFile, newFile |-> NoFile]
    ELSE IF fate = "write"
    THEN [err |-> TRUE, file |-> file[peer], newFile |-> Truncated(Encode(o[peer]), cut)]
    ELSE IF fate = "rename"
    THEN [err |-> TRUE, file |-> file[peer], newFile |-> Encode(o[peer])]
    ELSE [err |-> FALSE, file |-> Encode(o[peer]), newFile |-> NoFile]

\* save(peer) on cache o: the error, and the two files of the peer afterwards.
save(o, peer, fate, cut) ==
    IF fate = "open"
    THEN [err |-> TRUE, file |-> file[peer], newFile |-> newFile[peer]]
    ELSE IF peer \notin DOMAIN o
    THEN [err |-> FALSE, file |-> file[peer], newFile |-> EmptyFile]
    ELSE IF fate = "write"
    THEN [err |-> TRUE, file |-> file[peer], newFile |-> Truncated(Encode(o[peer]), cut)]
    ELSE IF fate = "rename"
    THEN [err |-> TRUE, file |-> file[peer], newFile |-> Encode(o[peer])]
    ELSE [err |-> FALSE, file |-> Encode(o[peer]), newFile |-> NoFile]

\* A save that opens and truncates <name> itself and writes it in place.
saveCrashedInPlace(o, peer, point, cut) ==
    IF point = "opened" \/ peer \notin DOMAIN o
    THEN [file |-> EmptyFile, newFile |-> newFile[peer]]
    ELSE IF point = "writing"
    THEN [file |-> Truncated(Encode(o[peer]), cut), newFile |-> newFile[peer]]
    ELSE [file |-> Encode(o[peer]), newFile |-> newFile[peer]]

\* The two files of the peer when the process dies at point of save(peer).
saveCrashed(o, peer, point, cut) ==
    IF point = "opened" \/ peer \notin DOMAIN o
    THEN [file |-> file[peer], newFile |-> EmptyFile]
    ELSE IF point = "writing"
    THEN [file |-> file[peer], newFile |-> Truncated(Encode(o[peer]), cut)]
    ELSE IF point = "written"
    THEN [file |-> file[peer], newFile |-> Encode(o[peer])]
    ELSE [file |-> Encode(o[peer]), newFile |-> NoFile]

\* The caller's map once the peers in gone have left the cache: the map
\* lives on, referenced by the caller alone.
Detached(gone) ==
    IF held.kind = "alias" /\ held.peer \in gone
    THEN HeldOwn(held.src, held.peer, open[held.peer])
    ELSE held

\* saveAndClose, were the entry deleted whether or not the save failed.
saveAndCloseAlwaysDeletes(o, peer, fate, cut) ==
    LET s == save(o, peer, fate, cut)
    IN  [err |-> s.err, file |-> s.file, newFile |-> s.newFile, open |-> MapDel(o, peer)]

\* saveAndClose, were the whole cache dropped after the save of one peer.
saveAndCloseEvictsAll(o, peer, fate, cut) ==
    LET s == save(o, peer, fate, cut)
    IN  [err |-> s.err, file |-> s.file, newFile |-> s.newFile,
         open |-> IF s.err THEN o ELSE EmptyFrontier]

\* saveAndClose(peer): the entry is deleted after a save without error.
saveAndClose(o, peer, fate, cut) ==
    LET s == save(o, peer, fate, cut)
    IN  [err |-> s.err, file |-> s.file, newFile |-> s.newFile,
         open |-> IF s.err THEN o ELSE MapDel(o, peer)]

\* SaveAndClose(peer)
SaveAndClose(peer, fate, cut) ==
    /\ CanCall
    /\ fate \in SaveFates(open, peer)
    /\ cut \in Cuts(open, peer, fate)
    /\ LET s == saveAndClose(open, peer, fate, cut)
       IN  /\ open' = s.open
           /\ file' = [file EXCEPT ![peer] = s.file]
           /\ newFile' = [newFile EXCEPT ![peer] = s.newFile]
           /\ held' = IF s.err THEN held ELSE Detached({peer})
           /\ last' = Call("SaveAndClose", peer, s.err, fate # "ok")
    /\ ret' = RetNone
    /\ budget' = Spent
    /\ UNCHANGED <<outside, rev, up>>

\* Close, were the cache emptied without a save.
CloseDropsCache(fates, cut) ==
    /\ CanCall
    /\ fates \in [DOMAIN open -> IOFates]
    /\ cut = 0
    /\ open' = EmptyFrontier
    /\ held' = Detached(DOMAIN open)
    /\ last' = Call("Close", Self, FALSE, \E p \in DOMAIN open : fates[p] # "ok")
    /\ ret' = RetNone
    /\ budget' = Spent
    /\ UNCHANGED <<outside, rev, up, file, newFile>>

\* Close(): saveAndClose for every cached peer, its error dropped; nil.
Close(fates, cut) ==
    /\ CanCall
    /\ fates \in [DOMAIN open -> IOFates]
    /\ cut \in 0..Len(FeedOrder)
    /\ (cut # 0 => \E p \in DOMAIN open : fates[p] = "write")
    /\ LET c(p) == IF cut \in Cuts(open, p, fates[p]) THEN cut ELSE 0
           s(p) == saveAndClose(open, p, fates[p], c(p))
           gone == {p \in DOMAIN open : ~s(p).err}
       IN  /\ open' = [p \in DOMAIN open \ gone |-> open[p]]
           /\ file' = [p \in Peers |-> IF p \in DOMAIN open THEN s(p).file ELSE file[p]]
           /\ newFile' =
                [p \in Peers |-> IF p \in DOMAIN open THEN s(p).newFile ELSE newFile[p]]
           /\ held' = Detached(gone)
           /\ last' = Call("Close", Self, FALSE, \E p \in DOMAIN open : fates[p] # "ok")
    /\ ret' = RetNone
    /\ budget' = Spent
    /\ UNCHANGED <<outside, rev, up>>

\* The process dies between two calls: the cache and every map are lost.
Crash ==
    /\ up
    /\ budget.crashes < MaxCrash
    /\ up' = FALSE
    /\ open' = EmptyFrontier
    /\ held' = NoHeld
    /\ ret' = RetNone
    /\ last' = Call("Crash", Self, FALSE, FALSE)
    /\ budget' = [budget EXCEPT !.crashes = @ + 1]
    /\ UNCHANGED <<outside, rev, file, newFile>>

\* The process dies inside the save of SaveAndClose(peer).
SaveCrash(peer, point, cut) ==
    /\ up
    /\ budget.crashes < MaxCrash
    /\ point \in (IF peer \in DOMAIN open THEN CrashPoints ELSE {"opened"})
    /\ cut \in Cuts(open, peer, point)
    /\ LET s == saveCrashed(open, peer, point, cut)
       IN  /\ file' = [file EXCEPT ![peer] = s.file]
           /\ newFile' = [newFile EXCEPT ![peer] = s.newFile]
    /\ up' = FALSE
    /\ open' = EmptyFrontier
    /\ held' = NoHeld
    /\ ret' = RetNone
    /\ last' = Call("SaveCrash", peer, FALSE, FALSE)
    /\ budget' = [budget EXCEPT !.crashes = @ + 1]
    /\ UNCHANGED <<outside, rev>>

\* The environment damages a committed file (the source does not fsync; a
\* power loss after the rename can leave the file cut short).
DamageFile(peer, cut) ==
    /\ budget.damages < MaxDamage
    /\ Decodable(file[peer])
    /\ cut \in 0..Len(file[peer].entries)
    /\ file' = [file EXCEPT ![peer] = Truncated(file[peer], cut)]
    /\ budget' = [budget EXCEPT !.damages = @ + 1]
    /\ last' = Call("DamageFile", peer, FALSE, FALSE)
    /\ ret' = RetNone
    /\ UNCHANGED <<outside, rev, up, open, newFile, held>>

\* ---------------------------------------------------------------- queries

\* HasLonger's loops, were "theirNote.Seq > note.Seq" not strict.
HasLongerResultOrEqual(o) ==
    IF Self \notin DOMAIN o THEN {}
    ELSE {[peer |-> x[1], feed |-> x[2], len |-> o[x[1]][x[2]].seq] :
            x \in {y \in (DOMAIN o) \X (DOMAIN o[Self]) :
                     /\ y[2] \in DOMAIN o[y[1]]
                     /\ o[y[1]][y[2]].seq >= o[Self][y[2]].seq}}

\* HasLonger(): for every cached peer, the feeds of self's frontier the
\* peer has a higher seq for.  Nothing when self is not cached.
HasLongerResult(o) ==
    IF Self \notin DOMAIN o THEN {}
    ELSE {[peer |-> x[1], feed |-> x[2], len |-> o[x[1]][x[2]].seq] :
            x \in {y \in (DOMAIN o) \X (DOMAIN o[Self]) :
                     /\ y[2] \in DOMAIN o[y[1]]
                     /\ o[y[1]][y[2]].seq > o[Self][y[2]].seq}}

HasLonger ==
    /\ CanCall
    /\ ret' = [RetNone EXCEPT !.longer = HasLongerResult(open)]
    /\ last' = Call("HasLonger", Self, FALSE, FALSE)
    /\ budget' = Spent
    /\ UNCHANGED <<outside, rev, up, open, file, newFile, held>>

\* The loop of WantsList over the peer's frontier.
WantsListResult(nf) == {f \in DOMAIN nf : nf[f].receive}

\* WantsList(peer): the feeds whose note has receive set (cryptoscope)
WantsList(peer, openFails) ==
    /\ CanCall
    /\ rev = "cryptoscope"
    /\ openFails \in OpenFailures(open, peer)
    /\ LET l == loadFrontier(open, peer, openFails)
       IN  /\ open' = l.open
           /\ ret' = IF l.err THEN RetNone
                     ELSE [RetNone EXCEPT !.feeds = WantsListResult(l.nf)]
           /\ last' = Call("WantsList", peer, l.err, l.ioerr)
    /\ budget' = Spent
    /\ UNCHANGED <<outside, rev, up, file, newFile, held>>

\* WantsFeed, were a feed wanted only if its note has replicate set too.
WantsFeedResultIfReplicated(nf, feed) ==
    IF feed \notin DOMAIN nf THEN [note |-> ZeroNote, wants |-> FALSE]
    ELSE [note |-> nf[feed], wants |-> nf[feed].replicate /\ nf[feed].receive]

\* What WantsFeed returns for a loaded frontier.
WantsFeedResult(nf, feed) ==
    IF feed \notin DOMAIN nf THEN [note |-> ZeroNote, wants |-> FALSE]
    ELSE [note |-> nf[feed], wants |-> nf[feed].receive]

\* WantsFeed(peer, feed): the note and its receive flag (cryptoscope)
WantsFeed(peer, feed, openFails) ==
    /\ CanCall
    /\ rev = "cryptoscope"
    /\ openFails \in OpenFailures(open, peer)
    /\ LET l == loadFrontier(open, peer, openFails)
       IN  /\ open' = l.open
           /\ ret' = IF l.err THEN RetNone
                     ELSE [RetNone EXCEPT !.note = WantsFeedResult(l.nf, feed).note,
                                          !.wants = WantsFeedResult(l.nf, feed).wants]
           /\ last' = [Call("WantsFeed", peer, l.err, l.ioerr) EXCEPT !.feed = feed]
    /\ budget' = Spent
    /\ UNCHANGED <<outside, rev, up, file, newFile, held>>

\* Changed's loop without its first branch: a feed the peer has no note for
\* falls through to the zero note and is left out.
RelevantSkipsUnknownToPeer(selfNf, peerNf, peer) ==
    LET keep(f) ==
            LET theirNote == IF f \in DOMAIN peerNf THEN peerNf[f] ELSE ZeroNote
            IN  IF ~theirNote.replicate THEN FALSE
                ELSE IF ~theirNote.receive /\ f # peer THEN FALSE
                ELSE TRUE
    IN  [f \in {g \in DOMAIN selfNf : keep(g)} |-> selfNf[f]]

\* Changed's loop, were a note of the peer with replicate unset no note.
RelevantTakesNotReplicatedAsAbsent(selfNf, peerNf, peer) ==
    LET has(f) == f \in DOMAIN peerNf /\ peerNf[f].replicate
        keep(f) ==
            IF ~has(f) /\ selfNf[f].receive THEN TRUE
            ELSE IF ~has(f) THEN FALSE
            ELSE IF ~peerNf[f].receive /\ f # peer THEN FALSE
            ELSE TRUE
    IN  [f \in {g \in DOMAIN selfNf : keep(g)} |-> selfNf[f]]

\* Changed's loop, were the note it returns for a feed the peer's when the
\* peer has one.
RelevantTakesTheirNote(selfNf, peerNf, peer) ==
    LET keep(f) ==
            IF f \notin DOMAIN peerNf /\ selfNf[f].receive THEN TRUE
            ELSE LET theirNote == IF f \in DOMAIN peerNf THEN peerNf[f] ELSE ZeroNote
                 IN  IF ~theirNote.replicate THEN FALSE
                     ELSE IF ~theirNote.receive /\ f # peer THEN FALSE
                     ELSE TRUE
    IN  [f \in {g \in DOMAIN selfNf : keep(g)} |->
            IF f \in DOMAIN peerNf THEN peerNf[f] ELSE selfNf[f]]

\* The loop of Changed (cryptoscope) over self's frontier.
Relevant(selfNf, peerNf, peer) ==
    LET keep(f) ==
            IF f \notin DOMAIN peerNf /\ selfNf[f].receive THEN TRUE
            ELSE LET theirNote == IF f \in DOMAIN peerNf THEN peerNf[f] ELSE ZeroNote
                 IN  IF ~theirNote.replicate THEN FALSE
                     ELSE IF ~theirNote.receive /\ f # peer THEN FALSE
                     ELSE TRUE
    IN  [f \in {g \in DOMAIN selfNf : keep(g)} |-> selfNf[f]]

\* Changed(self, peer), revision cryptoscope: both frontiers are loaded.
ChangedOld(self, peer, selfFails, peerFails) ==
    /\ CanCall
    /\ rev = "cryptoscope"
    /\ selfFails \in OpenFailures(open, self)
    /\ LET ls == loadFrontier(open, self, selfFails)
       IN  IF ls.err
           THEN /\ peerFails = FALSE
                /\ open' = ls.open
                /\ ret' = RetNone
                /\ last' = Call("Changed", peer, TRUE, ls.ioerr)
           ELSE /\ peerFails \in OpenFailures(ls.open, peer)
                /\ LET lp == loadFrontier(ls.open, peer, peerFails)
                   IN  /\ open' = lp.open
                       /\ ret' = IF lp.err THEN RetNone
                                 ELSE [RetNone EXCEPT !.nf = Relevant(ls.nf, lp.nf, peer)]
                       /\ last' = Call("Changed", peer, lp.err, lp.ioerr)
    /\ budget' = Spent
    /\ UNCHANGED <<outside, rev, up, file, newFile, held>>

\* loadLocalFrontier(): a note {sink.Seq(), true, true} for every feed of
\* the replication list.
loadLocalFrontier(list, seqs) == [f \in list |-> Note(seqs[f], TRUE, TRUE)]

\* Changed(self, peer), revision ssbc: a copy of loadLocalFrontier().  list
\* and seqs are what the replication lister and the verification sinks
\* answer; fails: one of them returns an error.  The call is recorded with
\* the frontier it read for self.
Changed(self, peer, list, seqs, fails) ==
    /\ CanCall
    /\ rev = "ssbc"
    /\ ret' = IF fails THEN RetNone
              ELSE [RetNone EXCEPT !.nf = loadLocalFrontier(list, seqs)]
    /\ last' = CallWith("Changed", peer, fails, FALSE,
                        IF fails THEN EmptyFrontier ELSE loadLocalFrontier(list, seqs), <<>>)
    /\ budget' = Spent
    /\ UNCHANGED <<outside, rev, up, open, file, newFile, held>>

Init ==
    /\ rev \in Revisions
    /\ up = TRUE
    /\ open = MapPut(EmptyFrontier, Self, EmptyFrontier)
    /\ file = [p \in Peers |-> NoFile]
    /\ newFile = [p \in Peers |-> NoFile]
    /\ held = NoHeld
    /\ ret = RetNone
    /\ last = [op |-> "New", peer |-> Self, feed |-> NoFeed, err |-> FALSE, ioerr |-> FALSE,
               patch |-> EmptyFrontier, feeds |-> <<>>,
               open |-> EmptyFrontier, file |-> file, newFile |-> newFile,
               held |-> NoHeld, heldValue |-> EmptyFrontier]
    /\ budget = [calls |-> 0, crashes |-> 0, damages |-> 0]
    /\ theirs = EmptyFrontier
    /\ wire = NoWire
    /\ graph = NoGraph
    /\ verdict = NoVerdict
    /\ NoEngine
    /\ sbot = NoNode

\* ---------------------------------------------------------- specifications

\* The lists handed to Fill where only its loading matters.
ShortFillLists == {l \in FillLists : Len(l) <= 1}

\* The cache and the maps callers hold: every call that reads or writes a
\* frontier, with saves that succeed.
Next ==
    \/ \E p \in Peers, x \in BOOLEAN, k \in BOOLEAN : Inspect(p, x, k)
    \/ \E p \in Peers, u \in Patches, x \in BOOLEAN, k \in BOOLEAN : Update(p, u, x, k)
    \/ \E p \in Peers, u \in Patches, x \in BOOLEAN, k \in BOOLEAN : UpdateOld(p, u, x, k)
    \/ \E p \in Peers, l \in FillLists, x \in BOOLEAN : Fill(p, l, x)
    \/ \E p \in Peers, l \in FillLists, x \in BOOLEAN : FillOld(p, l, x)
    \/ \E f \in Feeds, n \in NoteInputs : CallerWrite(f, n)
    \/ CallerDrop
    \/ \E p \in Peers : SaveAndClose(p, "ok", 0)

Spec == Init /\ [][Next]_vars

\* The files: saves that fail, crashes, damaged files, restarts, and every
\* call that loads a peer.
NextDisk ==
    \/ New
    \/ \E p \in Peers, x \in BOOLEAN : Inspect(p, x, FALSE)
    \/ \E p \in Peers, u \in Patches, x \in BOOLEAN : Update(p, u, x, FALSE)
    \/ \E p \in Peers, u \in Patches, x \in BOOLEAN : UpdateOld(p, u, x, FALSE)
    \/ \E p \in Peers, l \in ShortFillLists, x \in BOOLEAN : Fill(p, l, x)
    \/ \E p \in Peers, l \in ShortFillLists, x \in BOOLEAN : FillOld(p, l, x)
    \/ \E p \in Peers, f \in IOFates, c \in 0..Len(FeedOrder) : SaveAndClose(p, f, c)
    \/ \E fs \in [DOMAIN open -> IOFates], c \in 0..Len(FeedOrder) : Close(fs, c)
    \/ Crash
    \/ \E p \in Peers, pt \in CrashPoints, c \in 0..Len(FeedOrder) : SaveCrash(p, pt, c)
    \/ \E p \in Peers, c \in 0..Len(FeedOrder) : DamageFile(p, c)
    \/ \E p \in Peers, x \in BOOLEAN : WantsList(p, x)
    \/ \E p \in Peers, f \in Feeds, x \in BOOLEAN : WantsFeed(p, f, x)
    \/ \E p \in Peers, x \in BOOLEAN, y \in BOOLEAN : ChangedOld(Self, p, x, y)
    \/ \E p \in Peers, l \in SUBSET Feeds, s \in [Feeds -> 0..MaxSeq], x \in BOOLEAN :
          Changed(Self, p, l, s, x)

SpecDisk == Init /\ [][NextDisk]_vars

\* The peer self talks to.
Remote == "bob"

\* The queries.  The notes a frontier can hold when it is queried: any
\* combination of the flags that Update stores as it receives it.
QueryNotes ==
    {Note(0, TRUE, TRUE), Note(MaxSeq, TRUE, TRUE), Note(MaxSeq, TRUE, FALSE),
     Note(MaxSeq, FALSE, TRUE), Note(-1, FALSE, TRUE), Note(-1, FALSE, FALSE)}

QueryFrontiers == UNION {[D -> QueryNotes] : D \in SUBSET Feeds}

\* The file an earlier run may have left for a peer other than self.
PeerFiles == {NoFile, Encode([f \in Feeds |-> Note(MaxSeq, TRUE, TRUE)])}

\* The state after New(base, self) loaded the frontier self saved in an
\* earlier run; the file of the peer, if there is one, is not loaded yet.
InitQuery ==
    /\ rev \in Revisions
    /\ up = TRUE
    /\ \E nf \in QueryFrontiers, pf \in PeerFiles :
          /\ open = MapPut(EmptyFrontier, Self, nf)
          /\ file = [p \in Peers |-> IF p = Self THEN Encode(nf) ELSE pf]
    /\ newFile = [p \in Peers |-> NoFile]
    /\ held = NoHeld
    /\ ret = RetNone
    /\ last = [op |-> "New", peer |-> Self, feed |-> NoFeed, err |-> FALSE, ioerr |-> FALSE,
               patch |-> EmptyFrontier, feeds |-> <<>>,
               open |-> EmptyFrontier, file |-> file, newFile |-> newFile,
               held |-> NoHeld, heldValue |-> EmptyFrontier]
    /\ budget = [calls |-> 1, crashes |-> 0, damages |-> 0]
    /\ theirs = EmptyFrontier
    /\ wire = NoWire
    /\ graph = NoGraph
    /\ verdict = NoVerdict
    /\ NoEngine
    /\ sbot = NoNode

NextQuery ==
    \/ \E u \in QueryFrontiers : Update(Remote, u, FALSE, FALSE)
    \/ \E u \in QueryFrontiers : UpdateOld(Remote, u, FALSE, FALSE)
    \/ \E p \in Peers : SaveAndClose(p, "ok", 0)
    \/ HasLonger
    \/ \E p \in Peers : WantsList(p, FALSE)
    \/ \E p \in Peers, f \in Feeds : WantsFeed(p, f, FALSE)
    \/ \E p \in Peers : ChangedOld(Self, p, FALSE, FALSE)
    \/ \E p \in Peers, l \in SUBSET Feeds, s \in [Feeds -> 0..MaxSeq], x \in BOOLEAN :
          Changed(Self, p, l, s, x)

SpecQuery == InitQuery /\ [][NextQuery]_vars

\* Every call of the state matrix next to every other, on a matrix an
\* earlier run left files for, with no failing I/O step.
NextFrame ==
    \/ \E p \in Peers : Inspect(p, FALSE, FALSE)
    \/ \E p \in Peers, u \in Patches : Update(p, u, FALSE, FALSE)
    \/ \E p \in Peers, u \in Patches : UpdateOld(p, u, FALSE, FALSE)
    \/ \E p \in Peers, l \in ShortFillLists : Fill(p, l, FALSE)
    \/ \E p \in Peers, l \in ShortFillLists : FillOld(p, l, FALSE)
    \/ \E p \in Peers : SaveAndClose(p, "ok", 0)
    \/ HasLonger
    \/ \E p \in Peers : WantsList(p, FALSE)
    \/ \E p \in Peers, f \in Feeds : WantsFeed(p, f, FALSE)
    \/ \E p \in Peers : ChangedOld(Self, p, FALSE, FALSE)
    \/ \E p \in Peers, l \in SUBSET Feeds, s \in [Feeds -> 0..MaxSeq] :
          Changed(Self, p, l, s, FALSE)

SpecFrame == InitQuery /\ [][NextFrame]_vars

\* ------------------------------------------------------- the note exchange

\* Two processes, self's and the peer's, each with its own state matrix,
\* send each other what Changed returns and apply what they get with
\* Update.  No message is appended to any feed: the frontier a process has
\* for itself, and what its sinks answer, stay as they are.
MaxFrames == 4

ExchangeNotes == {Note(0, TRUE, TRUE), Note(MaxSeq, TRUE, TRUE), Note(MaxSeq, TRUE, FALSE)}

ExchangeFrontiers == UNION {[D -> ExchangeNotes] : D \in SUBSET Feeds}

\* loadFrontier(who) in the peer's process, which has no files yet.
TheirFrontier(who) == IF who \in DOMAIN theirs THEN theirs[who] ELSE EmptyFrontier

\* loadLocalFrontier() of a process whose replication list and sinks are
\* those its own frontier was filled from.
LocalFrontier(own) ==
    loadLocalFrontier(DOMAIN own, [f \in Feeds |-> IF f \in DOMAIN own THEN own[f].seq ELSE 0])

\* What Changed(self, peer) returns in a process whose frontier for itself
\* is own and whose frontier for the other is other.
ChangedResult(own, other, peer) ==
    IF rev = "ssbc" THEN LocalFrontier(own) ELSE Relevant(own, other, peer)

Sent(to, nf) == [wire EXCEPT !.to = to, !.nf = nf, !.sent = @ + 1]

Applied(by) == [wire EXCEPT !.to = "none", !.nf = EmptyFrontier, !.applied = @ \cup {by}]

\* Self computes Changed(self, peer) and sends it.
SelfSendsNotes ==
    /\ CanCall
    /\ wire.to = "none" /\ wire.sent < MaxFrames
    /\ LET ls == loadFrontier(open, Self, FALSE)
           lp == loadFrontier(ls.open, Remote, FALSE)
           nf == ChangedResult(ls.nf, lp.nf, Remote)
       IN  /\ ~ls.err /\ ~lp.err
           /\ open' = IF rev = "ssbc" THEN open ELSE lp.open
           /\ ret' = [RetNone EXCEPT !.nf = nf]
           /\ last' = CallWith("Changed", Remote, FALSE, FALSE,
                               IF rev = "ssbc" THEN nf ELSE EmptyFrontier, <<>>)
           /\ wire' = Sent(Remote, nf)
    /\ budget' = Spent
    /\ UNCHANGED <<rev, up, file, newFile, held, theirs, trust, engine, sbot>>

\* Self applies the notes it got with Update(peer, notes).
SelfAppliesNotes ==
    /\ CanCall
    /\ wire.to = Self
    /\ LET l == loadFrontier(open, Remote, FALSE)
           current == Overwrite(l.nf, wire.nf)
       IN  /\ ~l.err
           /\ open' = MapPut(l.open, Remote, current)
           /\ ret' = [RetNone EXCEPT !.nf = current]
           /\ last' = CallWith("Update", Remote, FALSE, FALSE, wire.nf, <<>>)
    /\ wire' = Applied(Self)
    /\ budget' = Spent
    /\ UNCHANGED <<rev, up, file, newFile, held, theirs, trust, engine, sbot>>

\* The peer computes Changed(peer, self) on its matrix and sends it.
PeerSendsNotes ==
    /\ wire.to = "none" /\ wire.sent < MaxFrames
    /\ theirs' = MapPut(theirs, Self, TheirFrontier(Self))
    /\ wire' = Sent(Self, ChangedResult(TheirFrontier(Remote), TheirFrontier(Self), Self))
    /\ UNCHANGED <<matrix, trust, engine, sbot>>

\* The peer applies the notes it got with Update(self, notes).
PeerAppliesNotes ==
    /\ wire.to = Remote
    /\ theirs' = MapPut(theirs, Self, Overwrite(TheirFrontier(Self), wire.nf))
    /\ wire' = Applied(Remote)
    /\ UNCHANGED <<matrix, trust, engine, sbot>>

\* Each process has the frontier it filled for itself; neither has heard
\* of the other yet.
InitExchange ==
    /\ rev \in Revisions
    /\ up = TRUE
    /\ \E a \in ExchangeFrontiers : open = MapPut(EmptyFrontier, Self, a)
    /\ \E b \in ExchangeFrontiers : theirs = MapPut(EmptyFrontier, Remote, b)
    /\ wire = NoWire
    /\ graph = NoGraph
    /\ verdict = NoVerdict
    /\ NoEngine
    /\ sbot = NoNode
    /\ file = [p \in Peers |-> NoFile]
    /\ newFile = [p \in Peers |-> NoFile]
    /\ held = NoHeld
    /\ ret = RetNone
    /\ last = [op |-> "New", peer |-> Self, feed |-> NoFeed, err |-> FALSE, ioerr |-> FALSE,
               patch |-> EmptyFrontier, feeds |-> <<>>,
               open |-> EmptyFrontier, file |-> file, newFile |-> newFile,
               held |-> NoHeld, heldValue |-> EmptyFrontier]
    /\ budget = [calls |-> 0, crashes |-> 0, damages |-> 0]

NextExchange ==
    \/ SelfSendsNotes
    \/ SelfAppliesNotes
    \/ PeerSendsNotes
    \/ PeerAppliesNotes

SpecExchange == InitExchange /\ [][NextExchange]_vars

\* ----------------------------------------------------------- the authorizer

MaxContacts == 4

MaxHops == 2

Refs == {"A", "X", "B"}

ContactKinds == {"follow", "block", "none"}

\* The feed the authorizer is made for (a.from).
From == "A"

\* The builder takes a contact message of author a about b: the edge a->b
\* is overwritten, or removed when a neither follows nor blocks b.
Edges(g, a, b, kind) ==
    LET e == <<a, b>>
    IN  IF kind = "none"
        THEN [x \in DOMAIN g.edge \ {e} |-> g.edge[x]]
        ELSE [x \in DOMAIN g.edge \cup {e} |-> IF x = e THEN kind ELSE g.edge[x]]

\* fg.Nodes(): the feeds some edge refers to.
Nodes(g) == {n \in Refs : \E e \in DOMAIN g.edge : e[1] = n \/ e[2] = n}

\* fg.Follows(from, to): the edge is there and is a follow.
Follows(g, from, to) == <<from, to>> \in DOMAIN g.edge /\ g.edge[<<from, to>>] = "follow"

\* The feeds reached from a feed in at most k steps over edges of some kinds.
RECURSIVE ReachIn(_, _, _, _)
ReachIn(g, kinds, from, k) ==
    IF k = 0 THEN {from}
    ELSE LET r == ReachIn(g, kinds, from, k - 1)
         IN  r \cup {b \in Refs : \E a \in r :
                        <<a, b>> \in DOMAIN g.edge /\ g.edge[<<a, b>>] \in kinds}

\* distLookup.Dist(to): the weight of the shortest path, a follow weighing
\* 1 and a block +Inf; -Inf when no path leads to the feed.
Dist(g, from, to) ==
    LET far == Cardinality(Refs)
        hops == {k \in 0..far : to \in ReachIn(g, {"follow"}, from, k)}
    IN  IF hops # {}
        THEN [inf |-> "no", n |-> CHOOSE k \in hops : \A j \in hops : k <= j]
        ELSE IF to \in ReachIn(g, {"follow", "block"}, from, far)
        THEN [inf |-> "+Inf", n |-> 0]
        ELSE [inf |-> "-Inf", n |-> 0]

\* int(d): exact for a finite d; for an infinite d Go leaves the result to
\* the implementation.
IntOf(d) ==
    IF d.inf = "no" THEN {[n |-> d.n, as |-> "exact"]}
    ELSE {[n |-> 0, as |-> w] : w \in {"MinInt64", "MaxInt64"}}

Admitted(from, to, maxHops, why) ==
    [op |-> "Authorize", from |-> from, to |-> to, maxHops |-> maxHops, admit |-> TRUE,
     why |-> why, dist |-> [n |-> 0, as |-> "exact"], max |-> 0]

Refused(from, to, maxHops, why, dist, max) ==
    [op |-> "Authorize", from |-> from, to |-> to, maxHops |-> maxHops, admit |-> FALSE,
     why |-> why, dist |-> dist, max |-> max]

NoDist == [n |-> 0, as |-> "exact"]

\* Authorize, were it the distance rule alone.
AuthorizeResultByDistanceAlone(g, from, to, maxHops, fails, conv) ==
    LET d == Dist(g, from, to)
    IN  IF d.inf # "no" \/ d.n > maxHops
        THEN Refused(from, to, maxHops, "OutOfReach", conv, maxHops)
        ELSE Admitted(from, to, maxHops, "reach")

\* Authorize, were its test "int(d) >= a.maxHops".
AuthorizeResultBelowMaxHops(g, from, to, maxHops, fails, conv) ==
    LET d == Dist(g, from, to)
    IN  IF fails = "Build" THEN Refused(from, to, maxHops, "GraphBuildFailed", NoDist, 0)
        ELSE IF Nodes(g) = {} THEN Admitted(from, to, maxHops, "tofu")
        ELSE IF Follows(g, from, to) THEN Admitted(from, to, maxHops, "following")
        ELSE IF from \notin Nodes(g) THEN Admitted(from, to, maxHops, "nosuchfrom")
        ELSE IF fails = "MakeDijkstra" THEN Refused(from, to, maxHops, "DijkstraFailed", NoDist, 0)
        ELSE IF d.inf # "no" \/ d.n >= maxHops
        THEN Refused(from, to, maxHops, "OutOfReach", conv, maxHops)
        ELSE Admitted(from, to, maxHops, "reach")

\* Authorize without "if fg.Nodes() == 0".
AuthorizeResultNoTofu(g, from, to, maxHops, fails, conv) ==
    LET d == Dist(g, from, to)
    IN  IF fails = "Build" THEN Refused(from, to, maxHops, "GraphBuildFailed", NoDist, 0)
        ELSE IF Follows(g, from, to) THEN Admitted(from, to, maxHops, "following")
        ELSE IF from \notin Nodes(g) THEN Admitted(from, to, maxHops, "nosuchfrom")
        ELSE IF fails = "MakeDijkstra" THEN Refused(from, to, maxHops, "DijkstraFailed", NoDist, 0)
        ELSE IF d.inf # "no" \/ d.n > maxHops
        THEN Refused(from, to, maxHops, "OutOfReach", conv, maxHops)
        ELSE Admitted(from, to, maxHops, "reach")

\* Authorize without "if fg.Follows(a.from, to)".
AuthorizeResultNoFollowShortcut(g, from, to, maxHops, fails, conv) ==
    LET d == Dist(g, from, to)
    IN  IF fails = "Build" THEN Refused(from, to, maxHops, "GraphBuildFailed", NoDist, 0)
        ELSE IF Nodes(g) = {} THEN Admitted(from, to, maxHops, "tofu")
        ELSE IF from \notin Nodes(g) THEN Admitted(from, to, maxHops, "nosuchfrom")
        ELSE IF fails = "MakeDijkstra" THEN Refused(from, to, maxHops, "DijkstraFailed", NoDist, 0)
        ELSE IF d.inf # "no" \/ d.n > maxHops
        THEN Refused(from, to, maxHops, "OutOfReach", conv, maxHops)
        ELSE Admitted(from, to, maxHops, "reach")

\* Authorize, were ErrNoSuchFrom wrapped and returned like any other error.
AuthorizeResultNoSuchFromIsError(g, from, to, maxHops, fails, conv) ==
    LET d == Dist(g, from, to)
    IN  IF fails = "Build" THEN Refused(from, to, maxHops, "GraphBuildFailed", NoDist, 0)
        ELSE IF Nodes(g) = {} THEN Admitted(from, to, maxHops, "tofu")
        ELSE IF Follows(g, from, to) THEN Admitted(from, to, maxHops, "following")
        ELSE IF from \notin Nodes(g) THEN Refused(from, to, maxHops, "DijkstraFailed", NoDist, 0)
        ELSE IF fails = "MakeDijkstra" THEN Refused(from, to, maxHops, "DijkstraFailed", NoDist, 0)
        ELSE IF d.inf # "no" \/ d.n > maxHops
        THEN Refused(from, to, maxHops, "OutOfReach", conv, maxHops)
        ELSE Admitted(from, to, maxHops, "reach")

\* Authorize, were the error of a.b.Build() dropped.
AuthorizeResultIgnoresBuildError(g, from, to, maxHops, fails, conv) ==
    LET d == Dist(g, from, to)
    IN  IF Nodes(g) = {} THEN Admitted(from, to, maxHops, "tofu")
        ELSE IF Follows(g, from, to) THEN Admitted(from, to, maxHops, "following")
        ELSE IF from \notin Nodes(g) THEN Admitted(from, to, maxHops, "nosuchfrom")
        ELSE IF fails = "MakeDijkstra" THEN Refused(from, to, maxHops, "DijkstraFailed", NoDist, 0)
        ELSE IF d.inf # "no" \/ d.n > maxHops
        THEN Refused(from, to, maxHops, "OutOfReach", conv, maxHops)
        ELSE Admitted(from, to, maxHops, "reach")

\* (a *authorizer) Authorize(to), a.from = from, a.maxHops = maxHops.
\* fails: the call that returns an error, a.b.Build() or (for another
\* reason than a missing from) fg.MakeDijkstra(); conv: what int(d) yields.
AuthorizeResult(g, from, to, maxHops, fails, conv) ==
    LET d == Dist(g, from, to)
    IN  IF fails = "Build" THEN Refused(from, to, maxHops, "GraphBuildFailed", NoDist, 0)
        ELSE IF Nodes(g) = {} THEN Admitted(from, to, maxHops, "tofu")
        ELSE IF Follows(g, from, to) THEN Admitted(from, to, maxHops, "following")
        ELSE IF from \notin Nodes(g) THEN Admitted(from, to, maxHops, "nosuchfrom")
        ELSE IF fails = "MakeDijkstra" THEN Refused(from, to, maxHops, "DijkstraFailed", NoDist, 0)
        ELSE IF d.inf # "no" \/ d.n > maxHops
        THEN Refused(from, to, maxHops, "OutOfReach", conv, maxHops)
        ELSE Admitted(from, to, maxHops, "reach")

\* What the caller of Authorize gets: nil or the error, the Dist of an
\* ErrOutOfReach left out where int(d) is not defined.
Answer(v) ==
    [admit |-> v.admit, why |-> v.why, max |-> v.max,
     dist |-> IF v.dist.as = "exact" THEN v.dist ELSE NoDist]

\* The call repeats the arguments and the failure of the call before it.
Repeats(from, to, maxHops, fails) ==
    /\ verdict.op = "Authorize"
    /\ <<verdict.from, verdict.to, verdict.maxHops, verdict.fails>> = <<from, to, maxHops, fails>>

\* A contact message of a about b is appended and the graph rebuilt.
Contact(a, b, kind) ==
    /\ graph.seen < MaxContacts
    /\ a # b
    /\ graph' = [edge |-> Edges(graph, a, b, kind),
                 followed |-> IF kind = "follow" THEN graph.followed \cup {<<a, b>>}
                              ELSE graph.followed,
                 seen |-> graph.seen + 1]
    /\ verdict' = NoVerdict
    /\ UNCHANGED <<matrix, theirs, wire, engine, sbot>>

\* Authorize gets as far as fg.MakeDijkstra(a.from), and a.from is a node.
CallsMakeDijkstra(g, from, to) ==
    Nodes(g) # {} /\ ~Follows(g, from, to) /\ from \in Nodes(g)

\* Authorize, did it admit whom it admitted in the call before.
AuthorizeRemembers(from, to, maxHops, fails) ==
    /\ fails = "MakeDijkstra" => CallsMakeDijkstra(graph, from, to)
    /\ \E conv \in IntOf(Dist(graph, from, to)) :
          LET v == AuthorizeResult(graph, from, to, maxHops, fails, conv)
              w == IF verdict.admit THEN Admitted(from, to, maxHops, "reach") ELSE v
          IN  verdict' = w @@ [fails |-> fails, built |-> graph,
                               twice |-> Repeats(from, to, maxHops, fails),
                               same |-> Repeats(from, to, maxHops, fails)
                                            => Answer(w) = Answer(verdict)]
    /\ UNCHANGED <<matrix, theirs, wire, graph, engine, sbot>>

Authorize(from, to, maxHops, fails) ==
    /\ fails = "MakeDijkstra" => CallsMakeDijkstra(graph, from, to)
    /\ \E conv \in IntOf(Dist(graph, from, to)) :
          LET v == AuthorizeResult(graph, from, to, maxHops, fails, conv)
          IN  verdict' = v @@ [fails |-> fails, built |-> graph,
                               twice |-> Repeats(from, to, maxHops, fails),
                               same |-> Repeats(from, to, maxHops, fails)
                                            => Answer(v) = Answer(verdict)]
    /\ UNCHANGED <<matrix, theirs, wire, graph, engine, sbot>>

AuthorizeFailures == {"none", "Build", "MakeDijkstra"}

NextTrust ==
    \/ \E a \in Refs, b \in Refs, k \in ContactKinds : Contact(a, b, k)
    \/ \E b \in Refs \ {From}, h \in 0..MaxHops, x \in AuthorizeFailures :
            Authorize(From, b, h, x)

\* The authorizer reads nothing of the state matrix: one revision is enough.
InitTrust == Init /\ rev = "cryptoscope"

SpecTrust == InitTrust /\ [][NextTrust]_vars

\* ----------------------------------------------------- the session registry

\* The sessions registered under a peer string.
LiveFor(a) == {x \in registry.live : x.addr = a}

\* A connection calls Open(addr); it has not got the mutex yet.
OpenCall(c, a) ==
    /\ callers[c].pc = "idle"
    /\ callers' = [callers EXCEPT ![c] =
            [NoCall EXCEPT !.pc = "opening", !.addr = a, !.had = a \in DOMAIN registry.open]]
    /\ UNCHANGED <<matrix, theirs, wire, trust, sbot, registry, session, task>>

\* Open, did it insert a fresh session whether or not one is there.
OpenBodyAlwaysInserts(c) ==
    LET a == callers[c].addr
        id == registry.made + 1
    IN  /\ callers[c].pc = "opening"
        /\ registry' = [registry EXCEPT !.open = MapPut(@, a, id), !.made = id,
                                        !.live = @ \cup {[id |-> id, addr |-> a]}]
        /\ callers' = [callers EXCEPT ![c].pc = "opened", ![c].isNew = TRUE, ![c].sess = id]
        /\ UNCHANGED <<matrix, theirs, wire, trust, sbot, session, task>>

\* Open, did it tell every caller that the session was there already.
OpenBodyNeverNew(c) ==
    LET a == callers[c].addr
        id == registry.made + 1
    IN  /\ callers[c].pc = "opening"
        /\ IF a \in DOMAIN registry.open
           THEN /\ callers' = [callers EXCEPT ![c].pc = "opened", ![c].isNew = FALSE,
                                              ![c].sess = registry.open[a]]
                /\ UNCHANGED registry
           ELSE /\ registry' = [registry EXCEPT !.open = MapPut(@, a, id), !.made = id,
                                                !.live = @ \cup {[id |-> id, addr |-> a]}]
                /\ callers' = [callers EXCEPT ![c].pc = "opened", ![c].isNew = FALSE,
                                              ![c].sess = id]
        /\ UNCHANGED <<matrix, theirs, wire, trust, sbot, session, task>>

\* Open(addr) under the mutex: the session that is there, or a fresh one.
OpenBody(c) ==
    LET a == callers[c].addr
        id == registry.made + 1
    IN  /\ callers[c].pc = "opening"
        /\ IF a \in DOMAIN registry.open
           THEN /\ callers' = [callers EXCEPT ![c].pc = "opened", ![c].isNew = FALSE,
                                              ![c].sess = registry.open[a]]
                /\ UNCHANGED registry
           ELSE /\ registry' = [registry EXCEPT !.open = MapPut(@, a, id), !.made = id,
                                                !.live = @ \cup {[id |-> id, addr |-> a]}]
                /\ callers' = [callers EXCEPT ![c].pc = "opened", ![c].isNew = TRUE,
                                              ![c].sess = id]
        /\ UNCHANGED <<matrix, theirs, wire, trust, sbot, session, task>>

\* A connection calls Wait(addr); it has not got the mutex yet.
WaitCall(c, a) ==
    /\ callers[c].pc = "idle"
    /\ callers' = [callers EXCEPT ![c] =
            [NoCall EXCEPT !.pc = "waiting", !.addr = a, !.had = a \in DOMAIN registry.open]]
    /\ UNCHANGED <<matrix, theirs, wire, trust, sbot, registry, session, task>>

\* Wait(addr) under the mutex: it returns when no session is there, else
\* the caller blocks on the channel of the peer string.
WaitBody(c) ==
    LET a == callers[c].addr
    IN  /\ callers[c].pc = "waiting"
        /\ IF a \in DOMAIN registry.open
           THEN /\ callers' = [callers EXCEPT ![c].pc = "blocked",
                                              ![c].sess = registry.open[a]]
                /\ registry' = [registry EXCEPT !.waitingFor = @ \cup {a}]
           ELSE /\ callers' = [callers EXCEPT ![c].pc = "waited"]
                /\ UNCHANGED registry
        /\ UNCHANGED <<matrix, theirs, wire, trust, sbot, session, task>>

\* Close, did it wake one of the callers blocked on the channel only.
ClosedWakesOne(reg, cs, a) ==
    LET blocked == {c \in Conns : cs[c].addr = a /\ cs[c].pc = "blocked"}
        one == IF blocked = {} THEN 0 ELSE CHOOSE c \in blocked : TRUE
    IN  [registry |-> [reg EXCEPT !.open = MapDel(@, a), !.waitingFor = @ \ {a},
                                  !.live = {x \in @ : x.addr # a}],
         callers |-> [c \in Conns |->
                        IF cs[c].addr # a THEN cs[c]
                        ELSE [cs[c] EXCEPT !.clean = FALSE,
                                           !.pc = IF c = one THEN "woken" ELSE @]]]

\* The registry and the callers after Close(addr): the session is removed,
\* the channel closed, which wakes every caller blocked on it.
Closed(reg, cs, a) ==
    [registry |-> [reg EXCEPT !.open = MapDel(@, a), !.waitingFor = @ \ {a},
                              !.live = {x \in @ : x.addr # a}],
     callers |-> [c \in Conns |->
                    IF cs[c].addr # a THEN cs[c]
                    ELSE [cs[c] EXCEPT !.clean = FALSE,
                                       !.pc = IF @ = "blocked" THEN "woken" ELSE @]]]

\* Close(addr)
RegistryClose(a) ==
    /\ registry' = Closed(registry, callers, a).registry
    /\ callers' = Closed(registry, callers, a).callers
    /\ UNCHANGED <<matrix, theirs, wire, trust, sbot, session, task>>

\* A woken caller returns from Wait.
WaitReturn(c) ==
    /\ callers[c].pc = "woken"
    /\ callers' = [callers EXCEPT ![c].pc = "waited"]
    /\ UNCHANGED <<matrix, theirs, wire, trust, sbot, registry, session, task>>

NextRegistry ==
    \/ \E c \in Conns, a \in Addrs : OpenCall(c, a)
    \/ \E c \in Conns : OpenBody(c)
    \/ \E c \in Conns, a \in Addrs : WaitCall(c, a)
    \/ \E c \in Conns : WaitBody(c)
    \/ \E a \in Addrs : RegistryClose(a)
    \/ \E c \in Conns : WaitReturn(c)

\* The registry reads nothing of the state matrix: one revision is enough.
InitRegistry == Init /\ rev = "cryptoscope"

SpecRegistry == InitRegistry /\ [][NextRegistry]_vars

\* A goroutine that can run does run.
SpecRegistryFair == SpecRegistry /\ \A c \in Conns : WF_vars(WaitReturn(c))

\* ------------------------------------------------------------- the session

MaxSessions == 2

\* The peer string of the peer the session is with.
PeerAddr == "bob@net"

\* The connection that waits for the end of the session.
Waiter == 1

\* The notes batches the peer sends.
SessionNotes ==
    {[f \in {"bob"} |-> Note(MaxSeq, TRUE, TRUE)],
     [f \in {"carol"} |-> Note(0, TRUE, TRUE)],
     [f \in {"bob"} |-> Note(MaxSeq, TRUE, FALSE)]}

\* CLOSED --connect-ok--> OPENING: the session is registered.
SessionConnect ==
    LET id == registry.made + 1
    IN  /\ session.state = "CLOSED"
        /\ PeerAddr \notin DOMAIN registry.open
        /\ registry.made < MaxSessions
        /\ registry' = [registry EXCEPT !.open = MapPut(@, PeerAddr, id), !.made = id,
                                        !.live = @ \cup {[id |-> id, addr |-> PeerAddr]}]
        /\ session' = [NoSession EXCEPT !.state = "OPENING", !.id = id]
        /\ UNCHANGED <<matrix, theirs, wire, trust, sbot, callers, task>>

\* OPENING --send-initial-notes--> RUNNING: Changed(self, peer) loads the
\* frontier of the peer; when that fails the session drains.
SessionStart ==
    LET l == loadFrontier(open, Remote, FALSE)
    IN  /\ up
        /\ session.state = "OPENING"
        /\ open' = l.open
        /\ session' = IF l.err
                      THEN [session EXCEPT !.state = "DRAINING", !.cancel = TRUE, !.why = "error"]
                      ELSE [session EXCEPT !.state = "RUNNING"]
        /\ UNCHANGED <<rev, up, file, newFile, held, ret, last, budget,
                       theirs, wire, trust, sbot, registry, callers, task>>

\* The tasks after a notes batch: one for every feed the peer wants to
\* receive, none for a feed it does not receive or not replicate.
TasksAfter(tasks, notes) ==
    (tasks \cup {f \in DOMAIN notes : notes[f].receive})
        \ {f \in DOMAIN notes : ~notes[f].receive \/ ~notes[f].replicate}

\* RUNNING, a notes batch comes in: Update(peer, notes), then the tasks.
SessionReceivesNotes(notes) ==
    LET l == loadFrontier(open, Remote, FALSE)
    IN  /\ up
        /\ session.state = "RUNNING"
        /\ ~l.err
        /\ open' = MapPut(l.open, Remote, Overwrite(l.nf, notes))
        /\ session' = [session EXCEPT !.tasks = TasksAfter(@, notes)]
        /\ UNCHANGED <<rev, up, file, newFile, held, ret, last, budget,
                       theirs, wire, trust, sbot, registry, callers, task>>

\* RUNNING --peer-closes-or-error--> DRAINING, RUNNING --local-close-->
\* DRAINING: every outbound task is told to stop.
SessionDrain(why) ==
    /\ session.state = "RUNNING"
    /\ session' = [session EXCEPT !.state = "DRAINING", !.cancel = TRUE, !.why = why]
    /\ UNCHANGED <<matrix, theirs, wire, trust, sbot, registry, callers, task>>

\* A cancelled task exits.
TaskExit(f) ==
    /\ session.state = "DRAINING"
    /\ f \in session.tasks
    /\ session' = [session EXCEPT !.tasks = @ \ {f}]
    /\ UNCHANGED <<matrix, theirs, wire, trust, sbot, registry, callers, task>>

\* DRAINING, all tasks done: SaveAndClose(peer).
SessionPersist(fate, cut) ==
    LET s == saveAndClose(open, Remote, fate, cut)
    IN  /\ up
        /\ session.state = "DRAINING" /\ session.tasks = {} /\ session.saved = "no"
        /\ fate \in SaveFates(open, Remote)
        /\ cut \in Cuts(open, Remote, fate)
        /\ open' = s.open
        /\ file' = [file EXCEPT ![Remote] = s.file]
        /\ newFile' = [newFile EXCEPT ![Remote] = s.newFile]
        /\ session' = [session EXCEPT !.saved = IF s.err THEN "err" ELSE "ok",
                                      !.frontier = Known(open, file, Remote)]
        /\ UNCHANGED <<rev, up, held, ret, last, budget,
                       theirs, wire, trust, sbot, registry, callers, task>>

\* The end of a session that stays in the registry.
SessionEndStaysRegistered ==
    /\ session.state = "DRAINING" /\ session.saved # "no"
    /\ session' = [session EXCEPT !.state = "CLOSED"]
    /\ UNCHANGED <<matrix, theirs, wire, trust, sbot, registry, callers, task>>

\* DRAINING --all-tasks-done--> CLOSED: the session leaves the registry
\* and the waiters are signalled (Close(peer) of the registry).
SessionEnd ==
    /\ session.state = "DRAINING" /\ session.saved # "no"
    /\ registry' = Closed(registry, callers, PeerAddr).registry
    /\ callers' = Closed(registry, callers, PeerAddr).callers
    /\ session' = [session EXCEPT !.state = "CLOSED"]
    /\ UNCHANGED <<matrix, theirs, wire, trust, sbot, task>>

Teardown ==
    \/ \E f \in Feeds : TaskExit(f)
    \/ \E fate \in IOFates, cut \in 0..Len(FeedOrder) : SessionPersist(fate, cut)
    \/ SessionEnd

NextSession ==
    \/ SessionConnect
    \/ SessionStart
    \/ \E n \in SessionNotes : SessionReceivesNotes(n)
    \/ \E why \in {"peer", "error", "local"} : SessionDrain(why)
    \/ Teardown
    \/ WaitCall(Waiter, PeerAddr)
    \/ WaitBody(Waiter)
    \/ WaitReturn(Waiter)

InitSession == Init /\ rev = "cryptoscope"

\* The steps of the teardown are taken when they can be.
SpecSession == InitSession /\ [][NextSession]_vars /\ WF_vars(Teardown)

\* ----------------------------------------------------- the outbound task

MaxHead == 3

Running == {"waiting", "streaming", "idle"}

\* A note of the peer for the feed comes in.  receive set: a task is made
\* to stream from max(seq, 0) on, or the task there is fast-forwarded when
\* the seq is past its cursor; receive or replicate unset: it is cancelled.
PeerNote(note) ==
    /\ task.pc \in Running \cup {"none"}
    /\ task' =
          IF ~note.receive \/ ~note.replicate
          THEN IF task.pc = "none" THEN task ELSE [task EXCEPT !.pc = "cancelled"]
          ELSE IF task.pc = "none"
          THEN LET from == IF note.seq > 0 THEN note.seq ELSE 0
               IN  [task EXCEPT !.pc = "waiting", !.cursor = from, !.start = from]
          ELSE IF note.seq > task.cursor
          THEN [task EXCEPT !.cursor = note.seq,
                            !.skipped = @ \cup (task.cursor + 1 .. note.seq)]
          ELSE task
    /\ UNCHANGED <<matrix, theirs, wire, trust, sbot, registry, callers, session>>

\* The task, did it send the newest message of the feed first.
TaskSendNewest ==
    /\ task.pc \in Running
    /\ task.cursor < task.head
    /\ task' = [task EXCEPT !.pc = "streaming", !.cursor = task.head,
                            !.delivered = Append(@, task.head)]
    /\ UNCHANGED <<matrix, theirs, wire, trust, sbot, registry, callers, session>>

\* The task sends the message after its cursor.
TaskSend ==
    /\ task.pc \in Running
    /\ task.cursor < task.head
    /\ task' = [task EXCEPT !.pc = "streaming", !.cursor = @ + 1,
                            !.delivered = Append(@, task.cursor + 1)]
    /\ UNCHANGED <<matrix, theirs, wire, trust, sbot, registry, callers, session>>

\* Nothing is left to send: the task waits for the next append.
TaskIdle ==
    /\ task.pc \in {"waiting", "streaming"}
    /\ task.cursor >= task.head
    /\ task' = [task EXCEPT !.pc = "idle"]
    /\ UNCHANGED <<matrix, theirs, wire, trust, sbot, registry, callers, session>>

\* A message is appended to the feed; an idle task continues.
LocalAppend ==
    /\ task.head < MaxHead
    /\ task' = [task EXCEPT !.head = @ + 1,
                            !.grown = @ \/ task.pc \in Running,
                            !.pc = IF @ = "idle" /\ task.cursor < task.head + 1
                                   THEN "streaming" ELSE @]
    /\ UNCHANGED <<matrix, theirs, wire, trust, sbot, registry, callers, session>>

\* On cancel the task exits; on a stream error it signals the session.
TaskStops(how) ==
    /\ task.pc \in Running
    /\ task' = [task EXCEPT !.pc = how]
    /\ UNCHANGED <<matrix, theirs, wire, trust, sbot, registry, callers, session>>

NextStream ==
    \/ \E seq \in -1..MaxHead, rcv \in BOOLEAN : PeerNote(Note(seq, TRUE, rcv))
    \/ TaskSend
    \/ TaskIdle
    \/ LocalAppend
    \/ \E how \in {"cancelled", "failed"} : TaskStops(how)

InitStream == Init /\ rev = "cryptoscope"

\* A task that can send does send.
SpecStream == InitStream /\ [][NextStream]_vars /\ WF_vars(TaskSend)

\* ------------------------------------------------------------ the publisher

MaxPublish == 4

\* The message types the client publishes.
MsgTypes == {"post", "contact", "about"}

\* ReceiveLog.Seq(): the sequence of the newest message, -1 on an empty log.
ReceiveLogSeq(log) == Len(log) - 1

\* Append, were contact messages kept out of the receive log.
AppendedUnlessContact(log, type) == IF type = "contact" THEN log ELSE Append(log, type)

\* Append(msg) on the receive log: the message becomes its newest entry.
Appended(log, type) == Append(log, type)

\* A test begins: the repository is removed and a node made on it.
NodeNew ==
    /\ sbot' = NoNode
    /\ UNCHANGED <<matrix, theirs, wire, trust, engine>>

\* sbotcli publish <type> ...: when it succeeds the message is appended and
\* its reference printed; when it fails nothing is.
Publish(type, ok) ==
    /\ Len(sbot.ReceiveLog) < MaxPublish
    /\ sbot' = [ReceiveLog |-> IF ok THEN Appended(sbot.ReceiveLog, type) ELSE sbot.ReceiveLog,
                published |-> IF ok THEN sbot.published + 1 ELSE sbot.published,
                step |-> [op |-> "publish", type |-> type, ok |-> ok,
                          seq |-> ReceiveLogSeq(sbot.ReceiveLog)]]
    /\ UNCHANGED <<matrix, theirs, wire, trust, engine>>

\* sbotcli get <ref> of a published message: a read.
Get ==
    /\ sbot.published > 0
    /\ sbot' = [sbot EXCEPT !.step = [op |-> "get", type |-> "none", ok |-> TRUE,
                                      seq |-> ReceiveLogSeq(sbot.ReceiveLog)]]
    /\ UNCHANGED <<matrix, theirs, wire, trust, engine>>

NextNode ==
    \/ NodeNew
    \/ \E t \in MsgTypes, ok \in BOOLEAN : Publish(t, ok)
    \/ Get

InitNode == Init /\ rev = "cryptoscope"

SpecNode == InitNode /\ [][NextNode]_vars

\* ----------------------------------------------------------------- claims

\* The peer of the last call, the frontier the matrix had for it when the
\* call began, and the one it has now.
P == last.peer

Before == Known(last.open, last.file, P)

Now == Known(open, file, P)

\* A committed file that exists and does not decode.
Corrupt(f) == f.exists /\ ~Decodable(f)

\* The last call loaded a peer that was not cached.
LoadedFromDisk(p) == p \notin DOMAIN last.open /\ p \in DOMAIN open

\* The notes the last Update or Fill brought for feed f, in order.
Incoming(f) ==
    IF last.op = "Update"
    THEN IF f \in DOMAIN last.patch THEN <<last.patch[f]>> ELSE <<>>
    ELSE LET idx == SelectSeq([i \in 1..Len(last.feeds) |-> i],
                              LAMBDA i : last.feeds[i].feed = f)
         IN  [j \in 1..Len(idx) |-> last.feeds[idx[j]].note]

LastOf(sq) == sq[Len(sq)]

\* C1: a successful Update(peer, patch) leaves the peer's stored frontier
\* with the patch's note for every feed of the patch and the previous note
\* (or none) for every other feed, and returns a frontier equal to it.
C1_UpdateOverwritesPerEntry ==
    (last.op = "Update" /\ ~last.err) =>
        /\ P \in DOMAIN open
        /\ \A f \in Feeds :
              IF f \in DOMAIN last.patch
              THEN f \in DOMAIN open[P] /\ open[P][f] = last.patch[f]
              ELSE /\ f \in DOMAIN open[P] <=> f \in DOMAIN Before
                   /\ f \in DOMAIN open[P] => open[P][f] = Before[f]
        /\ ret.nf = open[P]

\* C1 witness: an Update replaced the note of one feed with a different one
\* and kept the note of a feed its patch did not mention.
C1_Witness ==
    /\ last.op = "Update" /\ ~last.err
    /\ \E f \in DOMAIN last.patch : f \in DOMAIN Before /\ Before[f] # last.patch[f]
    /\ \E g \in DOMAIN Before : g \notin DOMAIN last.patch /\ open[P][g] = Before[g]
    /\ ret.nf = open[P]

\* C2: the frontier Update returned is a copy: a later Update or Fill on the
\* same peer leaves the map the caller holds as it was, and a write of the
\* caller to that map leaves the cache as it was.
C2_UpdateResultIsCopy ==
    /\ (/\ last.op \in {"Update", "Fill"} /\ ~last.err
        /\ last.held.kind # "none" /\ last.held.src = "Update"
        /\ last.held.peer = P /\ held = last.held)
            => HeldValue = last.heldValue
    /\ (last.op = "CallerWrite" /\ last.held.src = "Update") => open = last.open

\* C3: the frontier Inspect returned is a copy: a later Update or Fill on the
\* peer leaves the map the caller holds as it was, and a write of the caller
\* to that map leaves the cache (what a later Inspect returns) as it was.
C3_InspectResultIsCopy ==
    /\ (/\ last.op \in {"Update", "Fill"} /\ ~last.err
        /\ last.held.kind # "none" /\ last.held.src = "Inspect"
        /\ last.held.peer = P /\ held = last.held)
            => HeldValue = last.heldValue
    /\ (last.op = "CallerWrite" /\ last.held.src = "Inspect") => open = last.open

\* The case of C4: a successful Update or Fill brought notes for f, all with
\* replicate set, and the peer had a note for f.
C4_Case(f) ==
    /\ last.op \in {"Update", "Fill"} /\ ~last.err
    /\ Len(Incoming(f)) > 0
    /\ \A i \in 1..Len(Incoming(f)) : Incoming(f)[i].replicate
    /\ f \in DOMAIN Before

\* C4 as claimed: in that case the recorded seq is not lower than before.
C4_SeqNeverDecreases ==
    \A f \in Feeds : C4_Case(f) => (f \in DOMAIN Now /\ Now[f].seq >= Before[f].seq)

\* C4 as amended: in that case the recorded seq is the seq of the (last)
\* incoming note, so it is not lower than before exactly when the incoming
\* seq is not lower than the recorded one.
C4_SeqFollowsIncoming ==
    \A f \in Feeds : C4_Case(f) =>
        /\ f \in DOMAIN Now
        /\ Now[f].seq = LastOf(Incoming(f)).seq
        /\ (Now[f].seq >= Before[f].seq <=> LastOf(Incoming(f)).seq >= Before[f].seq)

\* C4 witness: an Update with a replicated note lowered the recorded seq of
\* a frontier reloaded from its file.
C4_Witness ==
    \E f \in Feeds :
        /\ C4_Case(f)
        /\ last.op = "Update"
        /\ LoadedFromDisk(P)
        /\ Now[f].seq < Before[f].seq

\* C5: when the process dies inside save(peer), the committed file holds
\* what it held before the save or the whole encoding of the frontier.
C5_CrashLeavesOldOrNew ==
    last.op = "SaveCrash" =>
        \/ file[P] = last.file[P]
        \/ P \in DOMAIN last.open /\ file[P] = Encode(last.open[P])

\* C5 witness: the process died inside the write of a frontier that differs
\* from the committed one; <name>.new is cut short, <name> is untouched.
C5_Witness ==
    /\ last.op = "SaveCrash"
    /\ P \in DOMAIN last.open
    /\ Decodable(last.file[P])
    /\ Decode(last.file[P]) # last.open[P]
    /\ newFile[P].exists /\ ~newFile[P].complete /\ Len(newFile[P].entries) > 0
    /\ file[P] = last.file[P]

PlainLoads == {"New", "Inspect", "WantsList", "WantsFeed"}

\* C7: a load reads the committed file alone: it caches what <name> decodes
\* to, the empty frontier when <name> does not exist, whatever <name>.new
\* holds, and does not touch either file.
C7_LoadIgnoresNewFile ==
    (last.op \in PlainLoads /\ ~last.err /\ LoadedFromDisk(P)) =>
        /\ open[P] = (IF last.file[P].exists THEN Decode(last.file[P]) ELSE EmptyFrontier)
        /\ file = last.file
        /\ newFile = last.newFile

\* C7 witness: a load of a peer with no committed file and a whole, non-empty
\* <name>.new left by an interrupted save cached the empty frontier.
C7_Witness ==
    /\ last.op \in PlainLoads /\ ~last.err /\ LoadedFromDisk(P)
    /\ ~file[P].exists
    /\ newFile[P].exists /\ newFile[P].complete /\ Len(newFile[P].entries) > 0
    /\ open[P] = EmptyFrontier

\* C8: a Close or SaveAndClose in which a save failed returns an error.
C8_WriteErrorsReported ==
    (last.op \in {"Close", "SaveAndClose"} /\ last.ioerr) => last.err

\* The calls that take a peer whose frontier they are to read or change.
PeerCalls == {"Inspect", "Update", "Fill", "WantsList", "WantsFeed", "Changed"}

\* What C9 promises of a call.
C9_Reported ==
    /\ last.err
    /\ P \notin DOMAIN open
    /\ file = last.file
    /\ newFile = last.newFile

\* C9 as claimed: every Inspect, Update, Fill, WantsList, WantsFeed and
\* Changed on an uncached peer whose committed file does not decode returns
\* an error, caches nothing for the peer and leaves the files as they were.
C9_EveryCallReportsCorruptFile ==
    (last.op \in PeerCalls /\ P \notin DOMAIN last.open /\ Corrupt(last.file[P]))
        => C9_Reported

\* The last call got to loadFrontier(peer) for an uncached peer: any of
\* the calls above but a Fill of the empty list in revision cryptoscope and
\* a Changed in revision ssbc, which do not read the peer's frontier.
C9_Loads ==
    /\ last.op \in PeerCalls
    /\ ~(last.op = "Fill" /\ rev = "cryptoscope" /\ Len(last.feeds) = 0)
    /\ ~(last.op = "Changed" /\ rev = "ssbc")
    /\ P \notin DOMAIN last.open

\* C9 as amended: every call that gets to loadFrontier(peer) for a peer
\* whose committed file does not decode returns an error, caches nothing
\* for the peer and leaves the files as they were.
C9_CorruptFileAlwaysReported ==
    (C9_Loads /\ Corrupt(last.file[P])) => C9_Reported

\* C9 witness: a load of a damaged file failed with no I/O error, and the
\* file is still there, damaged, with the peer not cached.
C9_Witness ==
    /\ C9_Loads /\ Corrupt(last.file[P])
    /\ last.err /\ ~last.ioerr
    /\ Corrupt(file[P]) /\ P \notin DOMAIN open

\* C10: after a successful Fill(peer, feeds) every feed of the list has the
\* note of its last entry when that entry has replicate set and no note
\* when it has not, and every other feed has the note it had.
C10_FillAppliesInOrder ==
    (last.op = "Fill" /\ ~last.err) =>
        \A f \in Feeds :
            IF Len(Incoming(f)) = 0
            THEN /\ f \in DOMAIN Now <=> f \in DOMAIN Before
                 /\ f \in DOMAIN Now => Now[f] = Before[f]
            ELSE IF LastOf(Incoming(f)).replicate
            THEN f \in DOMAIN Now /\ Now[f] = LastOf(Incoming(f))
            ELSE f \notin DOMAIN Now

\* C10 witness: a Fill whose list writes a feed and then drops it removed the
\* note the peer had for the feed and kept the note of another feed.
C10_Witness ==
    /\ last.op = "Fill" /\ ~last.err
    /\ \E f \in DOMAIN Before :
          /\ Len(Incoming(f)) = 2
          /\ Incoming(f)[1].replicate /\ ~Incoming(f)[2].replicate
          /\ f \notin DOMAIN Now
    /\ \E g \in DOMAIN Before : Len(Incoming(g)) = 0 /\ g \in DOMAIN Now

\* ------------------------------------------------------ claims on queries

\* Self's frontier when the last call began.
SelfBefore == Known(last.open, last.file, Self)

\* A frontier without its notes that have replicate unset, and their feeds.
Strip(nf) == [f \in {g \in DOMAIN nf : nf[g].replicate} |-> nf[f]]

NotReplicated(nf) == {f \in DOMAIN nf : ~nf[f].replicate}

\* The cache with the frontiers of the peers other than self stripped.
StripPeers(o) == [p \in DOMAIN o |-> IF p = Self THEN o[p] ELSE Strip(o[p])]

\* The last call is a Changed(self, peer) of the revision that reads both
\* frontiers, for a peer other than self, and it succeeded.
ChangedRead == last.op = "Changed" /\ rev = "cryptoscope" /\ ~last.err /\ P # Self

\* C11 as claimed: WantsList, WantsFeed, Changed and HasLonger return what
\* they would return were the peer's notes with replicate unset not there.
C11_NotReplicatedIsAbsent ==
    /\ (last.op = "WantsList" /\ ~last.err) => ret.feeds = WantsListResult(Strip(Before))
    /\ (last.op = "WantsFeed" /\ ~last.err) =>
            [note |-> ret.note, wants |-> ret.wants] = WantsFeedResult(Strip(Before), last.feed)
    /\ ChangedRead => ret.nf = Relevant(SelfBefore, Strip(Before), P)
    /\ last.op = "HasLonger" => ret.longer = HasLongerResult(StripPeers(last.open))

\* C11 as amended: a note with replicate unset is read like any other note.
\* WantsList lists its feed when its receive is set; WantsFeed returns the
\* note and its receive; Changed leaves its feed out, also where it would
\* tell a peer with no note that self wants the feed; HasLonger reports it
\* when its seq is above self's and both frontiers are cached.
C11_NotReplicatedIsRead ==
    /\ (last.op = "WantsList" /\ ~last.err) =>
            ret.feeds = WantsListResult(Strip(Before))
                            \cup {f \in NotReplicated(Before) : Before[f].receive}
    /\ (last.op = "WantsFeed" /\ ~last.err /\ last.feed \in NotReplicated(Before)) =>
            ret.note = Before[last.feed] /\ ret.wants = Before[last.feed].receive
    /\ ChangedRead =>
            /\ DOMAIN ret.nf = DOMAIN Relevant(SelfBefore, Strip(Before), P) \ NotReplicated(Before)
            /\ \A f \in DOMAIN ret.nf : ret.nf[f] = SelfBefore[f]
    /\ last.op = "HasLonger" =>
            ret.longer = HasLongerResult(StripPeers(last.open))
                \cup {[peer |-> p, feed |-> f, len |-> last.open[p][f].seq] :
                        <<p, f>> \in {x \in (DOMAIN last.open \ {Self}) \X Feeds :
                            /\ Self \in DOMAIN last.open
                            /\ x[2] \in NotReplicated(last.open[x[1]])
                            /\ x[2] \in DOMAIN last.open[Self]
                            /\ last.open[x[1]][x[2]].seq > last.open[Self][x[2]].seq}}

\* C11 witness: Changed left out a feed self wants because the peer's note
\* for it has replicate unset; with no note for it the feed would be in.
C11_Witness ==
    /\ ChangedRead
    /\ \E f \in NotReplicated(Before) :
          /\ f \in DOMAIN SelfBefore /\ SelfBefore[f].receive
          /\ f \notin DOMAIN ret.nf
          /\ f \in DOMAIN Relevant(SelfBefore, Strip(Before), P)

\* The frontier the last Changed read as self's: the matrix's entry for
\* self in one revision, loadLocalFrontier() in the other.
SelfRead == IF rev = "ssbc" THEN last.patch ELSE SelfBefore

\* C12: a successful Changed(self, peer) has every feed that self's
\* frontier holds with receive set and the peer's frontier has no note
\* for, with self's note.
C12_ChangedTellsWhatPeerLacks ==
    (last.op = "Changed" /\ ~last.err) =>
        \A f \in DOMAIN SelfRead :
            (SelfRead[f].receive /\ f \notin DOMAIN Before) =>
                (f \in DOMAIN ret.nf /\ ret.nf[f] = SelfRead[f])

\* C12 witness: Changed, reading both frontiers, returned a feed the peer
\* has no note for, and the peer has a note for another feed.
C12_Witness ==
    /\ ChangedRead
    /\ Before # EmptyFrontier
    /\ \E f \in DOMAIN SelfBefore :
          /\ SelfBefore[f].receive /\ ~SelfBefore[f].replicate
          /\ f \notin DOMAIN Before
          /\ f \in DOMAIN ret.nf /\ ret.nf[f] = SelfBefore[f]

\* C13: a successful Changed(self, peer) returns no feed for which the
\* peer's stored note has replicate unset.
C13_ChangedSkipsNotReplicated ==
    (last.op = "Changed" /\ ~last.err) =>
        \A f \in DOMAIN ret.nf : ~(f \in DOMAIN Before /\ ~Before[f].replicate)

\* C14: a successful Changed(self, peer) returns no feed, other than the
\* peer's own, for which the peer's stored note has receive unset; and it
\* returns the peer's own feed, when self has a note for it, if the peer's
\* note for it has replicate set, whatever its receive.
C14_ChangedSkipsNotReceived ==
    (last.op = "Changed" /\ ~last.err) =>
        /\ \A f \in DOMAIN ret.nf :
              (f \in DOMAIN Before /\ ~Before[f].receive) => f = P
        /\ (P \in DOMAIN SelfRead /\ P \in DOMAIN Before /\ Before[P].replicate) =>
              (P \in DOMAIN ret.nf /\ ret.nf[P] = SelfRead[P])

\* C15: once each side has applied the Changed of the other with Update,
\* the next Changed either side computes is empty.
C15_ExchangeConverges ==
    (wire.to # "none" /\ wire.applied = {Self, Remote}) => wire.nf = EmptyFrontier

\* The peers the matrix has a frontier for when the last call began: in
\* the cache, or in a committed file that decodes.
KnownPeers == {p \in Peers : p \in DOMAIN last.open \/ Decodable(last.file[p])}

\* The triples (peer, feed, the peer's seq) over a set of peers, for the
\* feeds self's frontier own and the peer's frontier have a note for, where
\* the peer's seq is above self's.
Longer(peers, own) ==
    {[peer |-> x[1], feed |-> x[2], len |-> Known(last.open, last.file, x[1])[x[2]].seq] :
        x \in {y \in peers \X Feeds :
                 /\ y[2] \in DOMAIN own
                 /\ y[2] \in DOMAIN Known(last.open, last.file, y[1])
                 /\ Known(last.open, last.file, y[1])[y[2]].seq > own[y[2]].seq}}

C17_Projections ==
    /\ (last.op = "WantsFeed" /\ ~last.err) =>
            IF last.feed \in DOMAIN Before
            THEN ret.note = Before[last.feed] /\ ret.wants = Before[last.feed].receive
            ELSE ret.note = ZeroNote /\ ret.wants = FALSE
    /\ (last.op = "WantsList" /\ ~last.err) =>
            ret.feeds = {f \in DOMAIN Before : Before[f].receive}

\* C17 as claimed: the above, and WantsFeed answers "not wanted" for a feed
\* whose note is {-1, replicate unset}, whatever the note's receive.
C17_WantsFeedAndList ==
    /\ C17_Projections
    /\ (/\ last.op = "WantsFeed" /\ ~last.err
        /\ last.feed \in DOMAIN Before
        /\ Before[last.feed].seq = -1 /\ ~Before[last.feed].replicate)
            => ~ret.wants

\* C17 as amended: WantsFeed returns the note and its receive, or the zero
\* note and false; WantsList returns the feeds whose note has receive set.
\* A note {-1, replicate unset} is answered with its receive like any other.
C17_WantsFollowReceive ==
    /\ C17_Projections
    /\ (/\ last.op = "WantsFeed" /\ ~last.err
        /\ last.feed \in DOMAIN Before
        /\ Before[last.feed].seq = -1 /\ ~Before[last.feed].replicate)
            => ret.wants = Before[last.feed].receive

\* C17 witness: with a frontier that holds one feed at {MaxSeq, set, set}
\* and the other at {-1, unset, unset}, as an Update stored them, WantsFeed
\* for the first returned its note and true.
C17_Witness ==
    /\ last.op = "WantsFeed" /\ ~last.err
    /\ P = Remote /\ P \in DOMAIN last.open
    /\ \E f \in Feeds :
          /\ Before = [g \in Feeds |-> IF g = f THEN Note(MaxSeq, TRUE, TRUE)
                                       ELSE Note(-1, FALSE, FALSE)]
          /\ last.feed = f
          /\ ret.note = Note(MaxSeq, TRUE, TRUE) /\ ret.wants

\* ---------------------------------------------------- claims on the authorizer

\* Authorize returned, the graph and the lookup were built.
Decided == verdict.op = "Authorize" /\ verdict.why \notin {"GraphBuildFailed", "DijkstraFailed"}

\* The distance the verdict was taken on (Contact clears the verdict).
D == Dist(graph, verdict.from, verdict.to)

WithinHops == D.inf = "no" /\ D.n <= verdict.maxHops

\* C18, as stated: Authorize(from, to, maxHops) admits if and only if the
\* shortest-path distance from `from` to `to` is finite and at most maxHops.
C18_AdmitsIffWithinHops == Decided => (verdict.admit <=> WithinHops)

\* C18, amended: Authorize admits if and only if the graph has no node, or
\* `from` directly follows `to`, or `from` is not a node of the graph, or the
\* shortest-path distance from `from` to `to` is finite and at most maxHops.
C18_AdmitsIffTrustedOrWithinHops ==
    Decided =>
        (verdict.admit <=>
            \/ Nodes(graph) = {}
            \/ Follows(graph, verdict.from, verdict.to)
            \/ verdict.from \notin Nodes(graph)
            \/ WithinHops)

\* A followed feed is admitted with maxHops = 0, its distance being 1.
C18_Witness ==
    /\ Decided /\ verdict.admit /\ verdict.maxHops = 0
    /\ Follows(graph, verdict.from, verdict.to)
    /\ D = [inf |-> "no", n |-> 1]

\* C19: if A's latest contact toward B is a block that came after a follow,
\* Authorize(A, B) returns OutOfReach for every maxHops, also when follow
\* edges lead from A through other feeds to B.
C19_BlockDominates ==
    (/\ Decided
     /\ <<verdict.from, verdict.to>> \in DOMAIN graph.edge
     /\ graph.edge[<<verdict.from, verdict.to>>] = "block"
     /\ <<verdict.from, verdict.to>> \in graph.followed)
        => (~verdict.admit /\ verdict.why = "OutOfReach")

\* The graph whose only edges are the follows A->X and X->B.
ViaX ==
    /\ DOMAIN graph.edge = {<<"A", "X">>, <<"X", "B">>}
    /\ \A e \in DOMAIN graph.edge : graph.edge[e] = "follow"

\* C20: with a non-empty graph, `from` a node and no direct follow of `to`,
\* Authorize rejects with OutOfReach{Dist, Max = maxHops} exactly when the
\* distance is -Inf, +Inf or above maxHops (Dist being the distance when it
\* is finite), and admits otherwise; with only A->X and X->B, Authorize(A, B)
\* admits for maxHops = 2 and returns OutOfReach{2, 1} for maxHops = 1.
C20_RejectsOutOfReach ==
    (/\ Decided
     /\ Nodes(graph) # {}
     /\ verdict.from \in Nodes(graph)
     /\ ~Follows(graph, verdict.from, verdict.to))
        => /\ IF D.inf # "no" \/ D.n > verdict.maxHops
              THEN /\ ~verdict.admit
                   /\ verdict.why = "OutOfReach"
                   /\ verdict.max = verdict.maxHops
                   /\ D.inf = "no" => verdict.dist = [n |-> D.n, as |-> "exact"]
              ELSE verdict.admit
           /\ (ViaX /\ verdict.from = "A" /\ verdict.to = "B") =>
                 /\ verdict.maxHops = 2 => verdict.admit
                 /\ verdict.maxHops = 1 =>
                       /\ ~verdict.admit
                       /\ verdict.why = "OutOfReach"
                       /\ verdict.dist = [n |-> 2, as |-> "exact"]
                       /\ verdict.max = 1

\* B, two follows away from A, is refused with maxHops = 1.
C20_Witness ==
    /\ Decided /\ ViaX
    /\ verdict.from = "A" /\ verdict.to = "B" /\ verdict.maxHops = 1
    /\ ~verdict.admit

\* C21: when the graph has no node, Authorize admits on first use, for any
\* `to` and maxHops, and returns before any distance is looked up.
C21_EmptyGraphAdmits ==
    (verdict.op = "Authorize" /\ verdict.fails # "Build" /\ Nodes(graph) = {})
        => (verdict.admit /\ verdict.why = "tofu")

\* Every contact seen was taken back: B is admitted with maxHops = 2
\* though nothing leads to it.
C21_Witness ==
    /\ verdict.op = "Authorize" /\ verdict.fails = "none" /\ verdict.admit
    /\ Nodes(graph) = {} /\ graph.seen > 0
    /\ verdict.to = "B" /\ verdict.maxHops = 2
    /\ D.inf = "-Inf"

\* C22: when `from` has a follow edge to `to`, Authorize admits, whatever
\* maxHops and the rest of the graph.
C22_FollowedIsAdmitted ==
    (verdict.op = "Authorize" /\ verdict.fails # "Build"
        /\ Follows(graph, verdict.from, verdict.to))
        => (verdict.admit /\ verdict.why = "following")

\* A followed feed that blocks `from` is admitted with maxHops = 0.
C22_Witness ==
    /\ verdict.op = "Authorize" /\ verdict.admit /\ verdict.maxHops = 0
    /\ Follows(graph, verdict.from, verdict.to)
    /\ <<verdict.to, verdict.from>> \in DOMAIN graph.edge
    /\ graph.edge[<<verdict.to, verdict.from>>] = "block"

\* C23: with a non-empty graph that `from` is not a node of, the lookup
\* fails with ErrNoSuchFrom and Authorize admits, for every `to`; when the
\* lookup fails otherwise, Authorize returns an error.
C23_NoSuchFromAdmits ==
    /\ (verdict.op = "Authorize" /\ verdict.fails # "Build"
            /\ Nodes(graph) # {} /\ verdict.from \notin Nodes(graph))
          => (verdict.admit /\ verdict.why = "nosuchfrom")
    /\ (verdict.op = "Authorize" /\ verdict.fails = "MakeDijkstra")
          => (~verdict.admit /\ verdict.why = "DijkstraFailed")

\* X follows B and nobody refers to A: B is admitted with maxHops = 0.
C23_Witness ==
    /\ verdict.op = "Authorize" /\ verdict.admit /\ verdict.why = "nosuchfrom"
    /\ Follows(graph, "X", "B") /\ verdict.from \notin Nodes(graph)
    /\ verdict.to = "B" /\ verdict.maxHops = 0

C25_BuildErrorRefuses ==
    (verdict.op = "Authorize" /\ verdict.fails = "Build")
        => (~verdict.admit /\ verdict.why = "GraphBuildFailed")

\* The build failed for a feed that `from` follows.
C25_Witness ==
    /\ verdict.op = "Authorize" /\ verdict.fails = "Build" /\ ~verdict.admit
    /\ Follows(graph, verdict.from, verdict.to)

\* ------------------------------------------------------ claims on the registry

\* C26: in every state of the registry, whatever the order of the Open,
\* Wait and Close calls of the connections, at most one session is live for
\* a peer string, and it is the one the registry has for it.
C26_OneSessionPerPeer ==
    \A a \in Addrs :
        /\ Cardinality(LiveFor(a)) <= 1
        /\ \A x \in LiveFor(a) : a \in DOMAIN registry.open /\ registry.open[a] = x.id

\* A second session for a peer string lives after the first was closed,
\* and two connections hold it.
C26_Witness ==
    \E a \in Addrs, c1 \in Conns, c2 \in Conns :
        /\ c1 # c2
        /\ LiveFor(a) = {[id |-> 2, addr |-> a]}
        /\ callers[c1].pc = "opened" /\ callers[c1].sess = 2
        /\ callers[c2].pc = "opened" /\ callers[c2].sess = 2

\* Two connections called Open for the same peer string when it had no
\* session and both have returned; no Close came between and no third
\* connection has called Open for it.
OpenedTogether(c1, c2) ==
    /\ c1 # c2
    /\ callers[c1].pc = "opened" /\ callers[c2].pc = "opened"
    /\ callers[c1].addr = callers[c2].addr
    /\ ~callers[c1].had /\ ~callers[c2].had
    /\ callers[c1].clean /\ callers[c2].clean
    /\ \A c \in Conns \ {c1, c2} :
          callers[c].addr = callers[c1].addr => callers[c].pc \notin {"opening", "opened"}

\* C27: of two callers that run Open(P) at the same time for a peer with
\* no session, one gets isNew = true and the other isNew = false with the
\* session the first inserted.
C27_OneOpenIsNew ==
    \A c1 \in Conns, c2 \in Conns :
        OpenedTogether(c1, c2) =>
            /\ callers[c1].isNew # callers[c2].isNew
            /\ callers[c1].sess = callers[c2].sess

C27_Witness == \E c1 \in Conns, c2 \in Conns : OpenedTogether(c1, c2)

LiveIds == {x.id : x \in registry.live}

\* C28: Close(peer) removes the session and wakes every caller blocked in
\* Wait(peer), however many: no caller stays blocked on a session that is
\* gone, a woken caller returns, and no Wait returns while the session it
\* met is still there.
C28_CloseWakesAllWaiters ==
    /\ [](\A c \in Conns :
            /\ callers[c].pc = "blocked" => callers[c].sess \in LiveIds
            /\ callers[c].pc \in {"woken", "waited"} => callers[c].sess \notin LiveIds)
    /\ \A c \in Conns : (callers[c].pc = "woken") ~> (callers[c].pc = "waited")

\* Two callers were blocked on the same session and both have returned.
C28_Witness ==
    \E c1 \in Conns, c2 \in Conns :
        /\ c1 # c2
        /\ callers[c1].pc = "waited" /\ callers[c2].pc = "waited"
        /\ callers[c1].sess # 0 /\ callers[c1].sess = callers[c2].sess

\* ------------------------------------------------------- claims on the session

\* A session has been through DRAINING and is CLOSED.
Ended == session.state = "CLOSED" /\ session.id # 0

\* The file of the peer holds the frontier the matrix had for it.
Persisted ==
    /\ Remote \notin DOMAIN open
    /\ Decodable(file[Remote])
    /\ Decode(file[Remote]) = session.frontier

\* Tasks cancelled and gone, SaveAndClose called, the session out of the
\* registry and nobody left waiting for it.
TornDown ==
    /\ session.cancel /\ session.tasks = {}
    /\ session.saved # "no"
    /\ session.id \notin LiveIds
    /\ \A c \in Conns : callers[c].pc = "blocked" => callers[c].sess # session.id

DeliveredSeqs == {task.delivered[i] : i \in DOMAIN task.delivered}

\* The task has sent all there is, or it has stopped.
CaughtUp == task.cursor >= task.head \/ task.pc \notin Running

C31_PublishAdvancesByOne ==
    /\ sbot.step.op = "New" => ReceiveLogSeq(sbot.ReceiveLog) = -1
    /\ sbot.step.op = "publish" /\ sbot.step.ok =>
          ReceiveLogSeq(sbot.ReceiveLog) = sbot.step.seq + 1
    /\ ReceiveLogSeq(sbot.ReceiveLog) = sbot.published - 1

\* TestPublish's end: a post, then a contact message, and Seq() is 1.
C31_Witness ==
    /\ sbot.ReceiveLog = <<"post", "contact">>
    /\ sbot.step.op = "publish" /\ sbot.step.type = "contact" /\ sbot.step.ok
    /\ sbot.published = 2
    /\ ReceiveLogSeq(sbot.ReceiveLog) = 1

\* ---------------------------------------------------------------------- C32

\* The calls C32 is about.  Each holds the mutex from its first statement
\* to its return, so concurrent calls take effect one after the other, in
\* the order they got the mutex.
SerialCalls == {"Update", "Fill", "Inspect", "Changed", "SaveAndClose"}

\* What the last call, run alone, makes of the frontier of its peer.
SerialEffect ==
    IF last.op = "Update" THEN Overwrite(Before, last.patch)
    ELSE IF last.op = "Fill" THEN FillFrom(Before, last.feeds, 1)
    ELSE Before

C33_ChangedRevisionsAgree ==
    (last.op = "Changed" /\ ~last.err) => ret.nf = Relevant(SelfBefore, Before, P)

\* The revision that reads both frontiers from the matrix returned that.
C33_ReadsMatrix ==
    (last.op = "Changed" /\ ~last.err /\ rev = "cryptoscope") =>
        ret.nf = Relevant(SelfBefore, Before, P)

\* ---------------------------------------------------------------------- C34

\* The last call is a SaveAndClose of a peer that was not in the cache.
SavedUncached == last.op = "SaveAndClose" /\ P \notin DOMAIN last.open

\* C34 as claimed: SaveAndClose(peer) of a peer that is not cached returns
\* no error and leaves the committed file of the peer as it was.
C34_UncachedSaveIsSilent ==
    SavedUncached => (~last.err /\ file[P] = last.file[P])

\* C34 as amended: SaveAndClose(peer) of a peer that is not cached leaves
\* every committed file and the cache as they were; it returns an error
\* exactly when it cannot open <name>.new, and otherwise leaves <name>.new
\* empty.
C34_UncachedSaveKeepsFile ==
    SavedUncached =>
        /\ file = last.file
        /\ open = last.open
        /\ last.err <=> last.ioerr
        /\ newFile[P] = IF last.err THEN last.newFile[P] ELSE EmptyFile

\* C34 witness: a SaveAndClose of an evicted peer returned no error and
\* the committed file still holds the notes saved before.
C34_Witness ==
    /\ SavedUncached /\ ~last.err
    /\ Decodable(file[P]) /\ Decode(file[P]) # EmptyFrontier
    /\ file[P] = last.file[P]
    /\ newFile[P] = EmptyFile

\* ---------------------------------------------------------------------- C35

\* C35: a SaveAndClose(peer) whose save fails leaves the cache, the peer's
\* frontier in it included, and the committed file as they were; one that
\* succeeds for a cached peer leaves a committed file that decodes to the
\* frontier the cache held, and only then is the entry gone.
C35_FailedSaveKeepsEntry ==
    last.op = "SaveAndClose" =>
        /\ last.err => (open = last.open /\ file = last.file)
        /\ (~last.err /\ P \in DOMAIN last.open) =>
              /\ P \notin DOMAIN open
              /\ Decodable(file[P]) /\ Decode(file[P]) = last.open[P]
        /\ (P \in DOMAIN last.open /\ P \notin DOMAIN open) => ~last.err

\* C35 witness: a SaveAndClose succeeded where an earlier one had failed at
\* the rename and left <name>.new; the notes updated before the failure are
\* in the committed file now.
C35_Witness ==
    /\ last.op = "SaveAndClose" /\ ~last.err
    /\ budget.crashes = 0
    /\ P \in DOMAIN last.open /\ last.open[P] # EmptyFrontier
    /\ last.newFile[P] = Encode(last.open[P])
    /\ ~last.file[P].exists
    /\ Decode(file[P]) = last.open[P]

\* ---------------------------------------------------------------------- C36

\* C36: after a Close() in which no I/O step failed the cache is empty and
\* the committed file of every peer that was cached decodes to the frontier
\* the peer had; and an Inspect(peer) that finds the cache empty returns
\* what the committed file of the peer decodes to.
C36_CloseSavesEveryPeer ==
    /\ (last.op = "Close" /\ ~last.ioerr) =>
          /\ open = EmptyFrontier
          /\ \A p \in DOMAIN last.open :
                Decodable(file[p]) /\ Decode(file[p]) = last.open[p]
    /\ (last.op = "Inspect" /\ ~last.err /\ last.open = EmptyFrontier /\ last.file[P].exists) =>
          ret.nf = Decode(last.file[P])

\* C36 witness: an Inspect of a peer right after a Close that saved self
\* and the peer returned the notes the peer had before the Close.
C36_Witness ==
    /\ last.op = "Inspect" /\ ~last.err /\ P # Self
    /\ budget.calls = MaxCalls /\ budget.crashes = 0 /\ budget.damages = 0
    /\ last.open = EmptyFrontier
    /\ \A p \in Peers : last.file[p].exists
    /\ ret.nf # EmptyFrontier /\ ret.nf = Decode(file[P])

\* ---------------------------------------------------------------------- C37

\* The matrix with every frontier it has, cached or in its committed file,
\* as the cache would hold them had none been evicted.
AllLoaded == [p \in KnownPeers |-> Known(last.open, last.file, p)]

\* C37: HasLonger() reports what it would report were every frontier the
\* matrix has in the cache: evicting self or a peer changes nothing.
C37_HasLongerIgnoresEviction ==
    last.op = "HasLonger" => ret.longer = HasLongerResult(AllLoaded)

\* With every frontier the matrix has in the cache, HasLonger reports that.
C37_HasLongerWhenAllCached ==
    (last.op = "HasLonger" /\ KnownPeers \subseteq DOMAIN last.open) =>
        ret.longer = HasLongerResult(AllLoaded)

\* ---------------------------------------------------------------------- C38

Writers == {"Update", "Fill", "SaveAndClose"}

Readers == {"Inspect", "Changed", "WantsList", "WantsFeed", "HasLonger"}

\* C38: Update(P, .), Fill(P, .) and SaveAndClose(P) leave every peer other
\* than P as it was, in the cache and on disk; Inspect, Changed, WantsList,
\* WantsFeed and HasLonger leave every file as it was, change no frontier
\* of the cache and no frontier the matrix has for any peer.
C38_CallsTouchTheirPeerOnly ==
    /\ last.op \in Writers =>
          \A q \in Peers \ {P} :
              /\ q \in DOMAIN open <=> q \in DOMAIN last.open
              /\ q \in DOMAIN open => open[q] = last.open[q]
              /\ file[q] = last.file[q]
              /\ newFile[q] = last.newFile[q]
    /\ last.op \in Readers =>
          /\ file = last.file
          /\ newFile = last.newFile
          /\ \A q \in Peers :
                /\ Known(open, file, q) = Known(last.open, last.file, q)
                /\ q \in DOMAIN last.open => (q \in DOMAIN open /\ open[q] = last.open[q])

\* C38 witness: an Update changed the frontier of a peer while self's
\* frontier, with notes in the cache and in its file, stayed as it was.
C38_Witness ==
    /\ last.op = "Update" /\ ~last.err /\ P # Self
    /\ Now # Before
    /\ Self \in DOMAIN open /\ open[Self] # EmptyFrontier
    /\ open[Self] = last.open[Self]
    /\ file[Self] = last.file[Self] /\ Decodable(file[Self])

\* ---------------------------------------------------------------------- C39

\* C39: what a successful Changed(self, peer) returns is a sub-map of the
\* frontier it read as self's: every feed of the result is a feed of that
\* frontier and has self's note, whatever note the peer has for it.
C39_ChangedIsSubMapOfSelf ==
    (last.op = "Changed" /\ ~last.err) =>
        \A f \in DOMAIN ret.nf : f \in DOMAIN SelfRead /\ ret.nf[f] = SelfRead[f]

\* C39 witness: Changed returned self's note for a feed the peer has a
\* different note for, and left out another feed of self's frontier.
C39_Witness ==
    /\ ChangedRead
    /\ \E f \in DOMAIN ret.nf :
          /\ f \in DOMAIN Before /\ Before[f] # SelfBefore[f]
          /\ ret.nf[f] = SelfBefore[f]
    /\ \E g \in DOMAIN SelfBefore : g \notin DOMAIN ret.nf

====
